---------------------------- MODULE Spec2Model ----------------------------
(***************************************************************************)
(* autoChess: the tick-driven game scheduler (arena/services/game_loop.py), *)
(* the human move handler and the control handlers (arena/views.py), over   *)
(* the Game / Move / MatchRecord / EngineConfig rows (arena/models.py).     *)
(*                                                                         *)
(* One game is modelled.  The database is the committed row `game` with    *)
(* the tables `moves`, `matchRecords` and `engines`.  Every handler runs   *)
(* inside `transaction.atomic()`: its writes become visible at commit and  *)
(* are dropped when an exception leaves the block.  The database admits    *)
(* one writing transaction at a time (settings.py: sqlite3), which is the  *)
(* variable dbWriter.  tick is split in two steps (the UPDATE that takes    *)
(* the tick lock, then body + finally + commit) so that other callers can  *)
(* arrive while a tick is in progress.                                     *)
(*                                                                         *)
(* The external engine process and the chess rules are environment: chess  *)
(* is a small position graph (LegalSucc), the engine answers are the sets  *)
(* best_move / apply_and_inspect / inspect_position.  A position's         *)
(* halfmove clock is a label of the graph node, so that the values 99 and  *)
(* 100 are met within a few plies.  Time is in milliseconds.               *)
(*                                                                         *)
(* The callers are environment too.  Their calls are bounded as follows:   *)
(* update_config and update_speed are called before the game is started,   *)
(* update_config for White only (Black stays the UCI engine create_game    *)
(* gives it); control/start is called at most MaxStarts times; a human     *)
(* clicks one of three squares; a call of tick ends within the step of the *)
(* clock it began in; at most two calls of tick overlap.  tick, the click  *)
(* handler, control/start and control/pause are otherwise called in any    *)
(* state and in any order.                                                 *)
(***************************************************************************)
EXTENDS Integers, Sequences, FiniteSets, TLC

\* ------------------------------------------------------------------ bounds

\* settings.AUTOCHESS_MAX_PLIES (an environment setting, 600 by default).
AUTOCHESS_MAX_PLIES == 5
\* control/start is called at most this often.
MaxStarts == 2
\* The clock stops advancing here.
MaxTime == 600

\* ------------------------------------------------------- program constants

STALE_SECONDS == 60
DEFAULT_PREVIEW_MS == 350
FIFTY_MOVE_HALFMOVES == 100
\* A DateTimeField holding NULL.
NoTime == -1

NoProc == "none"
TickProc == "tick"

WHITE == "WHITE"
BLACK == "BLACK"
CONFIGURED == "CONFIGURED"
RUNNING == "RUNNING"
PAUSED == "PAUSED"
FINISHED == "FINISHED"

CHECKMATE == "CHECKMATE"
STALEMATE == "STALEMATE"
REPETITION == "REPETITION"
FIFTY_MOVE == "FIFTY_MOVE"
INSUFFICIENT == "INSUFFICIENT"
RESIGN == "RESIGN"
MAX_PLIES == "MAX_PLIES"
UNKNOWN == "UNKNOWN"

STOCKFISH == "STOCKFISH"
PYCHESS == "PYCHESS"
PLAYER == "PLAYER"
EngineTypes == {STOCKFISH, PYCHESS, PLAYER}

\* ------------------------------------------------------------- positions
\* A FEN is the sequence of its whitespace separated fields
\* <<placement, side to move, castling, en passant, halfmove clock, fullmove>>;
\* the placement is the sequence of its piece letters in board order.

StartPlacement ==
  << "r","n","b","q","k","b","n","r", "p","p","p","p","p","p","p","p",
     "P","P","P","P","P","P","P","P", "R","N","B","Q","K","B","N","R" >>
KnightOutPlacement ==
  << "r","n","b","q","k","b","n","r", "p","p","p","p","p","p","p","p",
     "N", "P","P","P","P","P","P","P","P", "R","N","B","Q","K","B","R" >>

STARTPOS_FEN == << StartPlacement, "w", "KQkq", "-", 0, 1 >>
\* The knight is out and Black is to move.
FenKnightOut == << KnightOutPlacement, "b", "KQkq", "-", 1, 1 >>
\* The start placement again, two plies later: the key of STARTPOS_FEN.
FenStartAgain == << StartPlacement, "w", "KQkq", "-", 2, 2 >>
FenKnightOutAgain == << KnightOutPlacement, "b", "KQkq", "-", 3, 2 >>
\* The start placement once more, with the halfmove clock at the limit.
FenStartThird100 == << StartPlacement, "w", "KQkq", "-", 100, 52 >>
\* After e2e4 from the start, Black to move.
FenOpen == << <<"k","q","p","P","Q","K">>, "b", "-", "-", 0, 1 >>
\* White is checkmated (in check, no legal move).
FenMated == << <<"k","q","P","Q","K">>, "w", "-", "-", 0, 2 >>
\* White is stalemated (not in check, no legal move).
FenStalemated == << <<"k","q","p","K">>, "w", "-", "-", 0, 2 >>
\* Quiet positions of a queen against a rook.
FenQuietW == << <<"k","r","Q","K">>, "w", "-", "-", 0, 40 >>
FenQuietW2 == << <<"r","k","Q","K">>, "w", "-", "-", 0, 51 >>
\* One ply before the fifty-move limit, and at it.
FenEnding99 == << <<"k","r","K","Q">>, "b", "-", "-", 99, 50 >>
FenEnding100 == << <<"r","k","K","Q">>, "w", "-", "-", 100, 51 >>
\* The queen and the rook are exchanged: bare kings.
FenBareKings == << <<"k","K">>, "b", "-", "-", 0, 40 >>
FenBareKingsW == << <<"K","k">>, "w", "-", "-", 1, 41 >>
\* Bare kings with the halfmove clock at the limit.
FenBareKings100 == << <<"k","K">>, "b", "-", "-", 100, 90 >>

EmptyFen == << >>
NoKey == << >>

\* The two move labels of the graph, whichever side moves.
UciA == "g1f3"
UciB == "e2e4"
\* A move that is legal in no position of the graph.
UciIllegal == "a1a1"

\* A position text that is only a piece placement, without side to move.
FenNoSide == << StartPlacement >>
NoMoveTokens == {"(none)", "0000"}

\* chess: the legal moves of a position and the position each leads to.
LegalSucc(fen) ==
  CASE fen = STARTPOS_FEN      -> (UciA :> FenKnightOut)      @@ (UciB :> FenOpen)
    [] fen = FenKnightOut      -> (UciA :> FenStartAgain)     @@ (UciB :> FenQuietW)
    [] fen = FenOpen           -> (UciA :> FenMated)          @@ (UciB :> FenStalemated)
    [] fen = FenStartAgain     -> (UciA :> FenKnightOutAgain) @@ (UciB :> FenBareKings100)
    [] fen = FenKnightOutAgain -> (UciA :> FenStartAgain)     @@ (UciB :> FenStartThird100)
    [] fen = FenStartThird100  -> (UciA :> FenKnightOutAgain)
    [] fen = FenQuietW         -> (UciA :> FenEnding99)       @@ (UciB :> FenBareKings)
    [] fen = FenEnding99       -> (UciA :> FenEnding100)      @@ (UciB :> FenQuietW2)
    [] fen = FenEnding100      -> (UciA :> FenEnding99)
    [] fen = FenQuietW2        -> (UciA :> FenBareKings100)   @@ (UciB :> FenBareKings)
    [] fen = FenBareKings      -> (UciA :> FenBareKingsW)
    [] fen = FenBareKingsW     -> (UciA :> FenBareKings)
    [] fen = FenBareKings100   -> (UciA :> FenBareKingsW)
    [] OTHER                   -> [m \in {} |-> EmptyFen]

LegalMoves(fen) == DOMAIN LegalSucc(fen)

\* The squares giving check to the side to move ("Checkers:" of the engine).
CheckerSquares(fen) == IF fen = FenMated THEN "d1" ELSE ""


\* The engine's position key ("Key:"): placement, side, castling, en passant.
PositionKey(fen) == << fen[1], fen[2], fen[3], fen[4] >>

\* ------------------------------------------------------------------- fen.py

side_to_move_from_fen(fen) ==
  IF Len(fen) < 2 \/ fen[2] \notin {"w", "b"} THEN "ValueError" ELSE fen[2]

\* -1 stands for the ValueError of a FEN with fewer than five fields.
halfmove_clock_from_fen(fen) ==
  IF Len(fen) < 5 THEN -1 ELSE fen[5]

CountOf(seq, x) == Cardinality({i \in 1..Len(seq) : seq[i] = x})

\* A faulty check that takes any number of bishops for insufficient.
is_insufficient_material_any_bishops(fen) ==
  LET placement == fen[1]
      minors == SelectSeq(placement, LAMBDA c : c \notin {"K", "k"})
      letters == {minors[i] : i \in 1..Len(minors)}
  IN  IF Len(minors) = 0 THEN TRUE
      ELSE IF letters \cap {"P","p","R","r","Q","q"} # {} THEN FALSE
      ELSE IF Len(minors) = 1 /\ letters \subseteq {"B","b","N","n"} THEN TRUE
      ELSE letters \subseteq {"B","b"}

is_insufficient_material(fen) ==
  LET placement == fen[1]
      minors == SelectSeq(placement, LAMBDA c : c \notin {"K", "k"})
      letters == {minors[i] : i \in 1..Len(minors)}
  IN  IF Len(minors) = 0 THEN TRUE
      ELSE IF letters \cap {"P","p","R","r","Q","q"} # {} THEN FALSE
      ELSE IF Len(minors) = 1 /\ letters \subseteq {"B","b","N","n"} THEN TRUE
      ELSE letters \subseteq {"B","b"}
             /\ CountOf(minors, "B") <= 1 /\ CountOf(minors, "b") <= 1

\* ------------------------------------------------------------------ state

VARIABLES
  game,          \* the committed Game row
  moves,         \* the committed Move rows of the game, in insertion order
  matchRecords,  \* the committed MatchRecord rows of the game
  engines,       \* EngineConfig.engine_type of each side
  clock,         \* timezone.now(), in ms
  dbWriter,      \* the caller whose transaction holds the database write lock
  txn,           \* the call of tick in its atomic block: did its lock UPDATE wait
  waiting,       \* a second call of tick waits for the database
  last,          \* the handler call that just ended, and how
  starts,        \* how often control/start was called
  pool,          \* EnginePool: _engine and the holder of _lock
  engineProc,    \* the Stockfish child process behind UciProcess
  outbox,        \* lines the engine has written that _read_loop has not read yet
  lines,         \* UciProcess._lines, the queue _read_loop fills
  callers,       \* the threads that use the engine, each at its place in a call
  call,          \* a call of a function without side effects: arguments and result
  engineRows,    \* how many EngineConfig rows the game has for each side
  viewers        \* the requests inside ensure_engine_rows outside a transaction

rowVars == << engineRows, viewers >>

uciVars == << pool, engineProc, outbox, lines, callers >>

vars == << game, moves, matchRecords, engines, clock, dbWriter, txn, waiting, last,
           starts, pool, engineProc, outbox, lines, callers, call, engineRows,
           viewers >>

GameFields ==
  { "status", "fen", "side_to_move", "ply_count", "move_interval_ms", "preview_ms",
    "next_action_at", "last_move_uci", "pending_move_uci", "pending_move_set_at",
    "ui_selected_from", "ui_selected_to", "tick_lock", "tick_lock_at",
    "result", "termination_reason", "initial_position_key" }

\* Model.save(update_fields=fields): only the named columns are written.
Save(row, obj, fields) ==
  [f \in GameFields |-> IF f \in fields THEN obj[f] ELSE row[f]]

\* ---------------------------------------------------------------- models.py

mark_started(g, now) ==
  [g EXCEPT !.status = RUNNING, !.next_action_at = now]

\* A faulty mark_paused that forgets the preview state.
mark_paused_keeps_pending(g) == [g EXCEPT !.status = PAUSED]

mark_paused(g) ==
  [g EXCEPT !.status = PAUSED, !.pending_move_uci = "", !.pending_move_set_at = NoTime]

mark_finished(g, result, reason) ==
  [g EXCEPT !.status = FINISHED,
            !.pending_move_uci = "", !.pending_move_set_at = NoTime,
            !.result = result, !.termination_reason = reason]

SideOf(stm) == IF stm = "w" THEN WHITE ELSE BLACK

\* ------------------------------------------------- the engine (environment)
\* An answer is a record; kind "ok" carries the value, any other kind is the
\* exception the call raises.  UciError is what uci.py raises on a timeout or
\* a malformed line; OSError is what subprocess.Popen and a write to the
\* stdin of a dead process raise.

EngineFailures == {"UciError", "OSError"}

BestMove(mv) == [kind |-> "ok", move |-> mv]
Failure(e) == [kind |-> e, move |-> ""]

\* _pychess_choose_move: "(none)" without a legal move, else a legal move.
pychess_choose_move(fen) ==
  IF LegalMoves(fen) = {} THEN {BestMove("(none)")}
  ELSE {BestMove(m) : m \in LegalMoves(fen)}

\* The UCI engine: a legal move, a no-move token when there is none, a move
\* that is not legal here (a bestmove line left over from an earlier search),
\* or a failure.
stockfish_go(fen) ==
  (IF LegalMoves(fen) = {} THEN {BestMove(t) : t \in NoMoveTokens}
   ELSE {BestMove(m) : m \in LegalMoves(fen)} \cup {BestMove(UciIllegal)})
  \cup {Failure(e) : e \in EngineFailures}

best_move(fen, engine_type) ==
  IF engine_type = PYCHESS THEN pychess_choose_move(fen) ELSE stockfish_go(fen)

DisplayInfo(f, k, c) == [kind |-> "ok", fen |-> f, key |-> k, checkers_raw |-> c]
DisplayFailure(e) == [kind |-> e, fen |-> EmptyFen, key |-> NoKey, checkers_raw |-> ""]

\* UciProcess.display for position `fen`: the three lines of the dump, a dump
\* without them (an engine that does not know "d"), or a failure.
display(fen) ==
  { DisplayInfo(fen, PositionKey(fen), CheckerSquares(fen)),
    DisplayInfo(EmptyFen, NoKey, "") }
  \cup {DisplayFailure(e) : e \in EngineFailures}

inspect_position(fen) == display(fen)

\* "position fen <fen> moves <m>": the engine ignores a move that is not legal.
EngineApply(fen, mv) ==
  IF mv \in LegalMoves(fen) THEN LegalSucc(fen)[mv] ELSE fen

apply_and_inspect(fen_before, uci_move) == display(EngineApply(fen_before, uci_move))

\* -------------------------------------------------------------- game_loop.py
\* The messages of TickOutcome, without their accents.

MsgBusy == "Tick: foglalt (zar)."
MsgNotRunning == "Nem fut."
MsgPreview == "Elonezet (lepes kiemelve)."
MsgWaiting == "Varakozas (sebesseg)."
MsgBadFen == "Hibas FEN; lezarva."
MsgPlayer == "Varakozas: jatekos lep."
MsgEngineForfeit == "Engine hiba; forfeit."
MsgNoMoves == "Nincs legalis lepes; game over."
MsgIllegal == "Illegalis lepes; forfeit."
MsgMaxPlies == "Max plies draw."
MsgRepetition == "Haromszori ismetles: dontetlen."
MsgFifty == "50 lepes szabaly: dontetlen."
MsgInsufficient == "Anyaghiany: dontetlen."
MsgAdvanced == "Lepes vegrehajtva."

\* What a call of tick leaves behind: the rows as they are at the end of the
\* atomic block and the TickOutcome returned, or the exception raised.
Returned(row, ms, mrs, adv, msg) ==
  [row |-> row, moves |-> ms, matches |-> mrs, advanced |-> adv, message |-> msg,
   exc |-> "none"]
Raised(row, ms, mrs, e) ==
  [row |-> row, moves |-> ms, matches |-> mrs, advanced |-> FALSE, message |-> "",
   exc |-> e]

preview_ms_for_game(g) ==
  IF g.preview_ms = 0 THEN DEFAULT_PREVIEW_MS ELSE g.preview_ms

\* MatchRecord.objects.update_or_create(game=game, defaults=...)
materialize_match_record(mrs, g) ==
  LET rec == [result |-> g.result, termination_reason |-> g.termination_reason,
              move_interval_ms |-> g.move_interval_ms]
  IN  IF Len(mrs) > 0 THEN [mrs EXCEPT ![1] = rec] ELSE << rec >>

ForfeitResult(loser_side) == IF loser_side = BLACK THEN "1-0" ELSE "0-1"

\* _finish_draw / _finish_forfeit: mark_finished, game.save(), MatchRecord.
finish_draw(obj, ms, mrs, reason, adv, msg) ==
  LET o == mark_finished(obj, "1/2-1/2", reason)
  IN  Returned(o, ms, materialize_match_record(mrs, o), adv, msg)

\* A faulty forfeit that reports the call as an advance.
finish_forfeit_advanced(obj, ms, mrs, loser_side, msg) ==
  LET o == mark_finished(obj, ForfeitResult(loser_side), RESIGN)
  IN  Returned(o, ms, materialize_match_record(mrs, o), TRUE, msg)

finish_forfeit(obj, ms, mrs, loser_side, msg) ==
  LET o == mark_finished(obj, ForfeitResult(loser_side), RESIGN)
  IN  Returned(o, ms, materialize_match_record(mrs, o), FALSE, msg)

\* _finish_no_moves: the engine is asked whether the side to move is in check.
finish_no_moves(row, obj, ms, mrs) ==
  { IF info.kind # "ok" THEN Raised(row, ms, mrs, info.kind)
    ELSE LET in_check == info.checkers_raw # ""
             loser_side == SideOf(side_to_move_from_fen(obj.fen))
             o == IF in_check
                  THEN mark_finished(obj, ForfeitResult(loser_side), CHECKMATE)
                  ELSE mark_finished(obj, "1/2-1/2", STALEMATE)
         IN  Returned(o, ms, materialize_match_record(mrs, o), FALSE, MsgNoMoves)
    : info \in inspect_position(obj.fen) }

\* A faulty fifty-move test that needs the clock to pass one hundred.
is_fifty_move_above(g) ==
  LET h == halfmove_clock_from_fen(g.fen)
  IN  IF h < 0 THEN FALSE ELSE h > FIFTY_MOVE_HALFMOVES

is_fifty_move(g) ==
  LET h == halfmove_clock_from_fen(g.fen)
  IN  IF h < 0 THEN FALSE ELSE h >= FIFTY_MOVE_HALFMOVES

\* Occurrences of `key`: the initial key plus the Move rows carrying it.
KeyCount(g, ms, key) ==
  (IF g.initial_position_key # NoKey /\ g.initial_position_key = key THEN 1 ELSE 0)
  + Cardinality({i \in 1..Len(ms) : ms[i].position_key_after = key})

\* _is_threefold_repetition, `info` being the engine's answer to its
\* inspect_position(game.fen); a failure is swallowed and the key left empty.
is_threefold_repetition(g, ms, info) ==
  LET key == IF info.kind = "ok" THEN info.key ELSE NoKey
  IN  IF key = NoKey THEN FALSE ELSE KeyCount(g, ms, key) >= 3

\* The end conditions of the commit path, in the order the code tests them;
\* "" when none holds.
DrawReason(g, ms, ply_index, info) ==
  IF ply_index >= AUTOCHESS_MAX_PLIES THEN MAX_PLIES
  ELSE IF is_threefold_repetition(g, ms, info) THEN REPETITION
  ELSE IF is_fifty_move(g) THEN FIFTY_MOVE
  ELSE IF is_insufficient_material(g.fen) THEN INSUFFICIENT
  ELSE ""

DrawMessage(reason) ==
  CASE reason = MAX_PLIES -> MsgMaxPlies
    [] reason = REPETITION -> MsgRepetition
    [] reason = FIFTY_MOVE -> MsgFifty
    [] OTHER -> MsgInsufficient

Max(a, b) == IF a >= b THEN a ELSE b

RemainingMs(move_interval_ms, preview_ms) == Max(0, move_interval_ms - preview_ms)

\* A faulty index: one ply is skipped.
NextPlyIndex_skipping(g) == g.ply_count + 2

NextPlyIndex(g) == g.ply_count + 1

MoveRow(ply_index, uci, fen_after, key, is_check) ==
  [ply_index |-> ply_index, uci |-> uci, fen_after |-> fen_after,
   position_key_after |-> key, is_check |-> is_check]

\* unique_together (game, ply_index)
PlyTaken(ms, ply_index) == \E i \in 1..Len(ms) : ms[i].ply_index = ply_index

\* A faulty legality test that only looks for an empty position.
PositionUnchanged_only_empty(fen_after, fen_before) == fen_after = EmptyFen

\* tick, line 166: the move was not legal when the engine's position is
\* empty or is the position before the move.
PositionUnchanged(fen_after, fen_before) ==
  fen_after = EmptyFen \/ fen_after = fen_before

\* tick, lines 146-221: the pending move is applied.
\* A faulty save that leaves the pending move of the row as it was.
BadFenCommitFields_without_pending == {"status", "result", "termination_reason"}

\* update_fields of the save that closes a game with an unreadable position
\* while a move is pending.
BadFenCommitFields ==
  {"status", "result", "termination_reason", "pending_move_uci", "pending_move_set_at"}

tick_commit(row, obj, ms, mrs, now, preview_ms, move_uci) ==
  IF side_to_move_from_fen(obj.fen) = "ValueError"
  THEN { Returned(Save(row, mark_finished(obj, "1/2-1/2", UNKNOWN), BadFenCommitFields),
                  ms, mrs, FALSE, MsgBadFen) }
  ELSE
  LET side == SideOf(side_to_move_from_fen(obj.fen))
      After(info) ==
        IF info.kind = "UciError"
        THEN { finish_forfeit(obj, ms, mrs, side, MsgEngineForfeit) }
        ELSE IF info.kind # "ok" THEN { Raised(row, ms, mrs, info.kind) }
        ELSE IF PositionUnchanged(info.fen, obj.fen)
        THEN { finish_forfeit(obj, ms, mrs, side, MsgIllegal) }
        ELSE
        LET fen_after == info.fen
            is_check == info.checkers_raw # ""
            ply_index == NextPlyIndex(obj)
            ms1 == Append(ms, MoveRow(ply_index, move_uci, fen_after, info.key, is_check))
            obj1 == [obj EXCEPT !.fen = fen_after, !.ply_count = ply_index,
                                !.last_move_uci = move_uci,
                                !.side_to_move = side_to_move_from_fen(fen_after),
                                !.pending_move_uci = "", !.pending_move_set_at = NoTime,
                                !.next_action_at =
                                   now + RemainingMs(obj.move_interval_ms, preview_ms)]
        IN  IF PlyTaken(ms, ply_index) THEN { Raised(row, ms, mrs, "IntegrityError") }
            ELSE IF side_to_move_from_fen(fen_after) = "ValueError"
            THEN { Raised(row, ms, mrs, "ValueError") }
            ELSE { LET reason == DrawReason(obj1, ms1, ply_index, rep)
                   IN  IF reason # ""
                       THEN finish_draw(obj1, ms1, mrs, reason, TRUE, DrawMessage(reason))
                       ELSE Returned(Save(row, obj1,
                                          {"fen", "ply_count", "last_move_uci", "side_to_move",
                                           "pending_move_uci", "pending_move_set_at",
                                           "next_action_at"}),
                                     ms1, mrs, TRUE, MsgAdvanced)
                   : rep \in inspect_position(fen_after) }
  IN  UNION { After(info) : info \in apply_and_inspect(obj.fen, move_uci) }

\* A faulty save of the proposal that leaves the pending move out.
ProposeFields_without_pending == {"side_to_move"}

\* tick, line 143: the fields saved with the proposed move.
ProposeFields == {"pending_move_uci", "pending_move_set_at", "side_to_move"}

\* tick, lines 104-144: no move is pending; the mover is asked for one.
tick_propose(row, obj, ms, mrs, eng, now) ==
  IF obj.next_action_at # NoTime /\ now < obj.next_action_at
  THEN { Returned(row, ms, mrs, FALSE, MsgWaiting) }
  ELSE IF side_to_move_from_fen(obj.fen) = "ValueError"
  THEN { Returned(Save(row, mark_finished(obj, "1/2-1/2", UNKNOWN),
                       {"status", "result", "termination_reason"}),
                  ms, mrs, FALSE, MsgBadFen) }
  ELSE
  LET stm == side_to_move_from_fen(obj.fen)
      obj1 == [obj EXCEPT !.side_to_move = stm]
      side == SideOf(stm)
      Asked(bm) ==
        IF bm.kind = "UciError"
        THEN { finish_forfeit(obj1, ms, mrs, side, MsgEngineForfeit) }
        ELSE IF bm.kind # "ok" THEN { Raised(row, ms, mrs, bm.kind) }
        ELSE IF bm.move \in NoMoveTokens THEN finish_no_moves(row, obj1, ms, mrs)
        ELSE { Returned(Save(row, [obj1 EXCEPT !.pending_move_uci = bm.move,
                                               !.pending_move_set_at = now],
                             ProposeFields),
                        ms, mrs, FALSE, MsgPreview) }
  IN  IF eng[side] = PLAYER
      THEN { Returned(row, ms, mrs, FALSE, MsgPlayer) }
      ELSE UNION { Asked(bm) : bm \in best_move(obj.fen, eng[side]) }

\* A faulty status test that lets tick work on every unfinished game.
NotRunning_only_finished(obj) == obj.status = FINISHED

\* tick, line 89: the game is not Running.
NotRunning(obj) == obj.status # RUNNING

\* tick, lines 89-221: the body run under the tick lock, `row` being the row
\* as the lock UPDATE left it.
tick_body(row, ms, mrs, eng, now) ==
  LET obj == row
      preview_ms == preview_ms_for_game(obj)
  IN  IF NotRunning(obj) THEN { Returned(row, ms, mrs, FALSE, MsgNotRunning) }
      ELSE IF obj.pending_move_uci # ""
      THEN LET set_at == IF obj.pending_move_set_at = NoTime THEN now
                         ELSE obj.pending_move_set_at
           IN  IF now < set_at + preview_ms
               THEN { Returned(row, ms, mrs, FALSE, MsgPreview) }
               ELSE tick_commit(row, obj, ms, mrs, now, preview_ms, obj.pending_move_uci)
      ELSE tick_propose(row, obj, ms, mrs, eng, now)

\* ------------------------------------------------------------------ views.py

Squares == {"g1", "f3", "e4"}

\* f"{from_sq}{square}" for the squares of the model.
UciOf(from_sq, square) ==
  CASE from_sq = "g1" /\ square = "f3" -> UciA
    [] from_sq = "e2" /\ square = "e4" -> UciB
    [] OTHER -> UciIllegal

\* board.piece_at(square) is a piece of the side to move.
OwnPieceAt(fen, square) == square = "g1"

ClearSelection(g) == [g EXCEPT !.ui_selected_from = "", !.ui_selected_to = ""]

\* click_square_view, lines 327-403: the legal move `uci` is applied; `info`
\* is the engine's answer to inspect_position(fen_after), a failure of which
\* leaves the key empty.
click_apply(g, ms, mrs, side, uci, now, info) ==
  LET fen_after == LegalSucc(g.fen)[uci]
      is_check == CheckerSquares(fen_after) # ""
      no_moves == LegalMoves(fen_after) = {}
      pos_key == IF info.kind = "ok" THEN info.key ELSE NoKey
      ply_index == NextPlyIndex(g)
      ms1 == Append(ms, MoveRow(ply_index, uci, fen_after, pos_key, is_check))
      g1 == [g EXCEPT !.fen = fen_after, !.side_to_move = fen_after[2],
                      !.ply_count = ply_index, !.last_move_uci = uci,
                      !.ui_selected_from = "", !.ui_selected_to = "",
                      !.pending_move_uci = "", !.pending_move_set_at = NoTime,
                      !.next_action_at = now + RemainingMs(g.move_interval_ms, g.preview_ms)]
      g2 == IF ply_index >= AUTOCHESS_MAX_PLIES
            THEN mark_finished(g1, "1/2-1/2", MAX_PLIES)
            ELSE IF no_moves /\ is_check
            THEN mark_finished(g1, IF side = WHITE THEN "1-0" ELSE "0-1", CHECKMATE)
            ELSE IF no_moves
            THEN mark_finished(g1, "1/2-1/2", STALEMATE)
            ELSE IF pos_key # NoKey /\ KeyCount(g1, ms1, pos_key) >= 3
            THEN mark_finished(g1, "1/2-1/2", REPETITION)
            ELSE g1
      g3 == IF g2.status # FINISHED /\ is_fifty_move(g2)
            THEN mark_finished(g2, "1/2-1/2", FIFTY_MOVE) ELSE g2
      g4 == IF g3.status # FINISHED /\ is_insufficient_material(g3.fen)
            THEN mark_finished(g3, "1/2-1/2", INSUFFICIENT) ELSE g3
  IN  IF PlyTaken(ms, ply_index) THEN Raised(g, ms, mrs, "IntegrityError")
      ELSE IF g4.status = FINISHED
      THEN Returned(Save(g1, g4, {"status", "result", "termination_reason"}),
                    ms1, materialize_match_record(mrs, g4), TRUE, "click: move")
      ELSE Returned(g1, ms1, mrs, TRUE, "click: move")

\* click_square_view: a click on `square`.
\* _is_valid_square: a file a..h followed by a rank 1..8; OffBoard is a
\* square text that is neither.
OffBoard == "z9"
is_valid_square(square) == square # OffBoard

\* A faulty mover test that takes every side for a human player.
MoverIsPlayer_always(eng, side) == TRUE

\* click_square_view, line 258: the side to move is played by a human.
MoverIsPlayer(eng, side) == eng[side] = PLAYER

click_square(g, ms, mrs, eng, now, square) ==
  LET unchanged == Returned(g, ms, mrs, FALSE, "click")
      cleared == Returned(IF g.ui_selected_from # "" \/ g.ui_selected_to # ""
                          THEN ClearSelection(g) ELSE g, ms, mrs, FALSE, "click")
  IN  IF ~ is_valid_square(square) THEN { Returned(g, ms, mrs, FALSE, "400") }
      ELSE IF g.status # RUNNING THEN { cleared }
      ELSE IF g.pending_move_uci # "" THEN { cleared }
      ELSE IF Len(g.fen) < 2 THEN { Raised(g, ms, mrs, "IndexError") }
      ELSE IF ~ MoverIsPlayer(eng, SideOf(g.fen[2])) THEN { cleared }
      ELSE IF g.ui_selected_from = ""
      THEN IF ~ OwnPieceAt(g.fen, square) THEN { unchanged }
           ELSE { Returned([g EXCEPT !.ui_selected_from = square, !.ui_selected_to = ""],
                           ms, mrs, FALSE, "click") }
      ELSE IF square = g.ui_selected_from THEN { Returned(ClearSelection(g), ms, mrs, FALSE, "click") }
      ELSE LET uci == UciOf(g.ui_selected_from, square)
           IN  IF uci \notin LegalMoves(g.fen)
               THEN { Returned(ClearSelection(g), ms, mrs, FALSE, "click") }
               ELSE { click_apply([g EXCEPT !.ui_selected_to = square], ms, mrs,
                                  SideOf(g.fen[2]), uci, now, info)
                      : info \in inspect_position(LegalSucc(g.fen)[uci]) }

\* ----------------------------------------------------------------- actions

Idle == [waited |-> FALSE]

Call(op, adv, msg, exc, waited) ==
  [op |-> op, advanced |-> adv, message |-> msg, exc |-> exc, waited |-> waited]

\* The (move_interval_ms, preview_ms) pairs update_speed is called with.
SpeedChoices == { <<200, 200>>, <<200, 0>>, <<600, 200>> }
AdvanceSteps == {200}
NoCall == Call("none", FALSE, "", "none", FALSE)

\* create_game: a Configured game at the start position, White the embedded
\* search and Black the UCI engine; the initial key is the engine's, or empty
\* when the engine could not be asked.
\* ---------------------------------------------------------------------------
\* The engine client before its first use (services/engine.py, services/uci.py)
\* ---------------------------------------------------------------------------

\* A request that is not inside ensure_engine_rows.
IdleViewer == [pc |-> "idle", existing |-> {}, res |-> "none", calls |-> 0]

Viewers == {"v1", "v2"}

\* create_game and control/reset make both EngineConfig rows with the game.
RowsInit ==
  /\ engineRows = [s \in {WHITE, BLACK} |-> 1]
  /\ viewers = [v \in Viewers |-> IdleViewer]

\* No function is under call.
NoFunction == [fn |-> "none"]

Callers == {"a", "b"}
NoCaller == "none"

\* A thread that is not inside a call of the engine module.
IdleCaller ==
  [op |-> "idle", then |-> "idle", pc |-> 0, done |-> 0, of |-> "none",
   res |-> "none", fen |-> EmptyFen, move |-> ""]

\* EnginePool.__init__ and UciProcess.__init__: no engine, no process, no lines.
UciInit ==
  /\ pool = [engine |-> "none", ready |-> FALSE, lock |-> NoCaller]
  /\ engineProc = [proc |-> "none", position |-> STARTPOS_FEN, errored |-> FALSE]
  /\ outbox = << >>
  /\ lines = << >>
  /\ callers = [c \in Callers |-> IdleCaller]

Init ==
  /\ \E info \in inspect_position(STARTPOS_FEN) :
       game = [status |-> CONFIGURED, fen |-> STARTPOS_FEN, side_to_move |-> "w",
               ply_count |-> 0, move_interval_ms |-> 200, preview_ms |-> 200,
               next_action_at |-> NoTime, last_move_uci |-> "",
               pending_move_uci |-> "", pending_move_set_at |-> NoTime,
               ui_selected_from |-> "", ui_selected_to |-> "",
               tick_lock |-> FALSE, tick_lock_at |-> NoTime,
               result |-> "", termination_reason |-> "",
               initial_position_key |-> IF info.kind = "ok" THEN info.key ELSE NoKey]
  /\ moves = << >>
  /\ matchRecords = << >>
  /\ engines = [s \in {WHITE, BLACK} |-> IF s = WHITE THEN PYCHESS ELSE STOCKFISH]
  /\ clock = 0
  /\ dbWriter = NoProc
  /\ txn = Idle
  /\ waiting = FALSE
  /\ last = NoCall
  /\ starts = 0
  /\ UciInit
  /\ call = NoFunction
  /\ RowsInit

\* A faulty filter that takes a lock of exactly sixty seconds for stale.
LockFree_at_sixty(g, lock_now) ==
  \/ g.tick_lock = FALSE
  \/ (g.tick_lock_at # NoTime /\ g.tick_lock_at <= lock_now - STALE_SECONDS * 1000)
  \/ g.tick_lock_at = NoTime

\* The filter of the lock UPDATE (lines 80-84).
LockFree(g, lock_now) ==
  \/ g.tick_lock = FALSE
  \/ (g.tick_lock_at # NoTime /\ g.tick_lock_at < lock_now - STALE_SECONDS * 1000)
  \/ g.tick_lock_at = NoTime

\* A tick without its finally clause.
ReleaseTickLock_missing(row) == row

\* The finally clause (line 224).
ReleaseTickLock(row) == [row EXCEPT !.tick_lock = FALSE]

\* tick is called while the atomic block of another call of tick holds the
\* database: its lock UPDATE waits for that transaction to end.
TickWait ==
  /\ dbWriter = TickProc
  /\ waiting = FALSE
  /\ waiting' = TRUE
  /\ UNCHANGED << game, moves, matchRecords, engines, clock, dbWriter, txn, last, starts, uciVars, call, rowVars >>

\* tick, lines 77-86: the transaction begins and the lock UPDATE runs, for
\* the call that waited (waited = TRUE) or for a new call.
TickAcquire(waited) ==
  /\ dbWriter = NoProc
  /\ waited => waiting
  /\ waiting' = IF waited THEN FALSE ELSE waiting
  /\ IF LockFree(game, clock)
     THEN /\ dbWriter' = TickProc
          /\ txn' = [waited |-> waited]
          /\ UNCHANGED last
     ELSE /\ dbWriter' = NoProc
          /\ txn' = Idle
          /\ last' = Call("tick", FALSE, MsgBusy, "none", waited)
  /\ UNCHANGED << game, moves, matchRecords, engines, clock, starts, uciVars, call, rowVars >>

\* tick, lines 88-224: the body, the finally clause, and the end of the
\* atomic block: a commit, or a rollback when an exception leaves it.
TickBody ==
  /\ dbWriter = TickProc
  /\ \E res \in tick_body([game EXCEPT !.tick_lock = TRUE, !.tick_lock_at = clock],
                          moves, matchRecords, engines, clock) :
       /\ IF res.exc = "none"
          THEN /\ game' = ReleaseTickLock(res.row)
               /\ moves' = res.moves
               /\ matchRecords' = res.matches
          ELSE UNCHANGED << game, moves, matchRecords >>
       /\ last' = Call("tick", res.advanced, res.message, res.exc, txn.waited)
  /\ dbWriter' = NoProc
  /\ txn' = Idle
  /\ UNCHANGED << engines, clock, waiting, starts, uciVars, call, rowVars >>

\* click_square_view in its atomic block.
ClickSquare(square) ==
  /\ dbWriter = NoProc
  /\ \E res \in click_square(game, moves, matchRecords, engines, clock, square) :
       /\ IF res.exc = "none"
          THEN /\ game' = res.row
               /\ moves' = res.moves
               /\ matchRecords' = res.matches
          ELSE UNCHANGED << game, moves, matchRecords >>
       /\ last' = Call("click", res.advanced, res.message, res.exc, FALSE)
  /\ UNCHANGED << engines, clock, dbWriter, txn, waiting, starts, uciVars, call, rowVars >>

\* control, action "start"; the guard bounds the number of calls.
ControlStart ==
  /\ dbWriter = NoProc
  /\ starts < MaxStarts
  /\ starts' = starts + 1
  /\ game' = mark_started(game, clock)
  /\ last' = Call("start", FALSE, "", "none", FALSE)
  /\ UNCHANGED << moves, matchRecords, engines, clock, dbWriter, txn, waiting, uciVars, call, rowVars >>

\* control, action "pause".
ControlPause ==
  /\ dbWriter = NoProc
  /\ game' = mark_paused(game)
  /\ last' = Call("pause", FALSE, "", "none", FALSE)
  /\ UNCHANGED << moves, matchRecords, engines, clock, dbWriter, txn, waiting, starts, uciVars, call, rowVars >>

\* control, action "reset": a new Configured game takes over the interval,
\* the preview duration and the movers of this one, and the caller is sent
\* to it; from here on `game`, `moves` and `matchRecords` are the new game's.
ControlReset ==
  /\ dbWriter = NoProc
  /\ game' = [status |-> CONFIGURED, fen |-> STARTPOS_FEN, side_to_move |-> "w",
              ply_count |-> 0, move_interval_ms |-> game.move_interval_ms,
              preview_ms |-> game.preview_ms,
              next_action_at |-> NoTime, last_move_uci |-> "",
              pending_move_uci |-> "", pending_move_set_at |-> NoTime,
              ui_selected_from |-> "", ui_selected_to |-> "",
              tick_lock |-> FALSE, tick_lock_at |-> NoTime,
              result |-> "", termination_reason |-> "",
              initial_position_key |-> NoKey]
  /\ moves' = << >>
  /\ matchRecords' = << >>
  /\ last' = Call("reset", FALSE, "", "none", FALSE)
  /\ UNCHANGED << engines, clock, dbWriter, txn, waiting, starts, uciVars, call, rowVars >>

\* A faulty update_config that leaves a pending engine preview in place.
update_config_game_keeps_pending(g, side, new_type) == g

\* update_config, the Game row: a pending engine preview is dropped when the
\* side to move becomes a human player.
update_config_game(g, side, new_type) ==
  LET stm == IF Len(g.fen) < 2 THEN g.side_to_move ELSE g.fen[2]
  IN  IF new_type = PLAYER /\ SideOf(stm) = side /\ g.pending_move_uci # ""
      THEN [g EXCEPT !.pending_move_uci = "", !.pending_move_set_at = NoTime]
      ELSE g

\* update_config: the mover kind of a side is changed, before the game is
\* started.
UpdateConfig(side, new_type) ==
  /\ dbWriter = NoProc
  /\ game.status = CONFIGURED
  /\ engines[side] # new_type
  /\ engines' = [engines EXCEPT ![side] = new_type]
  /\ game' = update_config_game(game, side, new_type)
  /\ last' = Call("config", FALSE, "", "none", FALSE)
  /\ UNCHANGED << moves, matchRecords, clock, dbWriter, txn, waiting, starts, uciVars, call, rowVars >>

\* update_speed: the interval and the preview duration are changed.
UpdateSpeed(interval, preview) ==
  /\ dbWriter = NoProc
  /\ game.status = CONFIGURED
  /\ << interval, preview >> # << game.move_interval_ms, game.preview_ms >>
  /\ game' = [game EXCEPT !.move_interval_ms = interval, !.preview_ms = preview]
  /\ last' = Call("speed", FALSE, "", "none", FALSE)
  /\ UNCHANGED << moves, matchRecords, engines, clock, dbWriter, txn, waiting, starts, uciVars, call, rowVars >>

\* Time passes, one step of the clock; a call of tick ends within the step
\* it began in.
Advance(d) ==
  /\ dbWriter = NoProc /\ waiting = FALSE
  /\ clock + d <= MaxTime
  /\ clock' = clock + d
  /\ last' = NoCall
  /\ UNCHANGED << game, moves, matchRecords, engines, dbWriter, txn, waiting, starts, uciVars, call, rowVars >>

Next ==
  \/ TickWait
  \/ \E waited \in BOOLEAN : TickAcquire(waited)
  \/ TickBody
  \/ \E sq \in Squares : ClickSquare(sq)
  \/ ControlStart
  \/ ControlPause
  \/ ControlReset
  \/ \E t \in EngineTypes : UpdateConfig(WHITE, t)
  \/ \E sp \in SpeedChoices : UpdateSpeed(sp[1], sp[2])
  \/ \E d \in AdvanceSteps : Advance(d)

Spec == Init /\ [][Next]_vars

\* The Game row is registered with the site administration (admin.py):
\* an administrator saves the row of a Running game with a position text
\* that lacks the side to move.  The environment does so in the first
\* run of a game, before its second ply.
AdminEditFen ==
  /\ dbWriter = NoProc
  /\ game.status = RUNNING
  /\ starts = 1 /\ game.ply_count <= 1
  /\ game.fen # FenNoSide
  /\ game' = [game EXCEPT !.fen = FenNoSide]
  /\ last' = Call("admin", FALSE, "", "none", FALSE)
  /\ UNCHANGED << moves, matchRecords, engines, clock, dbWriter, txn, waiting, starts, uciVars, call, rowVars >>

NextAdmin == Next \/ AdminEditFen

\* The game with the administration site in use.
SpecAdmin == Init /\ [][NextAdmin]_vars

\* A faulty database that lets the handler write beside an open transaction.
click_under_tick_unlocked(g, ms, mrs, eng, now, square) ==
  click_square(g, ms, mrs, eng, now, square)

\* click_square_view while the atomic block of a tick holds the database
\* (SQLite, one writer): the handler reads the committed row, its first
\* write fails with "database is locked", the block is rolled back and the
\* error is swallowed (lines 404-406).
click_under_tick(g, ms, mrs, eng, now, square) ==
  { Raised(g, ms, mrs, "OperationalError") }

ClickSquareLocked(square) ==
  /\ dbWriter = TickProc
  /\ \E res \in click_under_tick(game, moves, matchRecords, engines, clock, square) :
       /\ IF res.exc = "none"
          THEN /\ game' = res.row
               /\ moves' = res.moves
               /\ matchRecords' = res.matches
          ELSE UNCHANGED << game, moves, matchRecords >>
       /\ last' = Call("click", res.advanced, res.message, res.exc, FALSE)
  /\ UNCHANGED << engines, clock, dbWriter, txn, waiting, starts, uciVars, call, rowVars >>

\* The handlers of a game whose speed stays as created, with the clicks
\* that meet an open tick.
NextRace ==
  \/ TickWait
  \/ \E waited \in BOOLEAN : TickAcquire(waited)
  \/ TickBody
  \/ \E sq \in Squares : ClickSquare(sq)
  \/ \E sq \in Squares : ClickSquareLocked(sq)
  \/ ControlStart
  \/ ControlPause
  \/ ControlReset
  \/ \E t \in EngineTypes : UpdateConfig(WHITE, t)
  \/ \E d \in AdvanceSteps : Advance(d)

\* The game with clicks arriving while a tick is at work.
SpecRace == Init /\ [][NextRace]_vars

\* The times, in milliseconds, at which the lock is looked at: before, at
\* and after the sixty seconds of line 81.
LockClocks == {0, 20000, 40000, 60000, 80000}

\* A started game whose row carries a lock flag and a lock time of their
\* own: never locked, unlocked by the last tick, or saved as locked (the
\* administration site writes every column of the row).
InitLock ==
  /\ \E held \in BOOLEAN, at \in {NoTime, 0} :
       game = [status |-> RUNNING, fen |-> STARTPOS_FEN, side_to_move |-> "w",
               ply_count |-> 0, move_interval_ms |-> 200, preview_ms |-> 200,
               next_action_at |-> 0, last_move_uci |-> "",
               pending_move_uci |-> "", pending_move_set_at |-> NoTime,
               ui_selected_from |-> "", ui_selected_to |-> "",
               tick_lock |-> held, tick_lock_at |-> at,
               result |-> "", termination_reason |-> "",
               initial_position_key |-> PositionKey(STARTPOS_FEN)]
  /\ moves = << >>
  /\ matchRecords = << >>
  /\ engines = [s \in {WHITE, BLACK} |-> IF s = WHITE THEN PYCHESS ELSE STOCKFISH]
  /\ clock = 0
  /\ dbWriter = NoProc
  /\ txn = Idle
  /\ waiting = FALSE
  /\ last = NoCall
  /\ starts = 1
  /\ UciInit
  /\ call = NoFunction
  /\ RowsInit

\* Time passes to a later one of the times of LockClocks.
AdvanceLock ==
  /\ dbWriter = NoProc /\ waiting = FALSE
  /\ \E t \in LockClocks : t > clock /\ clock' = t
  /\ last' = NoCall
  /\ UNCHANGED << game, moves, matchRecords, engines, dbWriter, txn, waiting, starts, uciVars, call, rowVars >>

NextLock ==
  \/ TickWait
  \/ \E waited \in BOOLEAN : TickAcquire(waited)
  \/ TickBody
  \/ AdvanceLock

\* Ticks on a game whose lock may have been left set.
SpecLock == InitLock /\ [][NextLock]_vars

\* update_config while the game is Running: a side is handed over to a
\* human player in the middle of the game.  The environment does so for
\* Black, White being open to a human player from the start, in the first
\* run of a game and before its second ply, and does not call
\* control/start again afterwards.
UpdateConfigRunning(side) ==
  /\ dbWriter = NoProc
  /\ game.status = RUNNING
  /\ starts = 1 /\ game.ply_count <= 1
  /\ engines[side] # PLAYER
  /\ engines' = [engines EXCEPT ![side] = PLAYER]
  /\ game' = update_config_game(game, side, PLAYER)
  /\ last' = Call("config", FALSE, "", "none", FALSE)
  /\ starts' = MaxStarts
  /\ UNCHANGED << moves, matchRecords, clock, dbWriter, txn, waiting, uciVars, call, rowVars >>

\* The handlers of a game whose speed stays as created, with the mid-game
\* hand-over.
NextSwitch ==
  \/ TickWait
  \/ \E waited \in BOOLEAN : TickAcquire(waited)
  \/ TickBody
  \/ \E sq \in Squares : ClickSquare(sq)
  \/ ControlStart
  \/ ControlPause
  \/ ControlReset
  \/ \E t \in EngineTypes : UpdateConfig(WHITE, t)
  \/ \E d \in AdvanceSteps : Advance(d)
  \/ UpdateConfigRunning(BLACK)

\* The game with a mover switched to a human player while it runs.
SpecSwitch == Init /\ [][NextSwitch]_vars

\* ------------------------------------------------------------------ claims

\* C1: in every reachable state the MoveRecords of the game carry the ply
\* indices 1..N in order, each exactly once, and the ply count of the game is N.
C1_PlyIndicesContiguous ==
  /\ \A i \in 1..Len(moves) : moves[i].ply_index = i
  /\ game.ply_count = Len(moves)

\* Moves of a human White and of the engine Black have alternated up to the
\* ply limit.
C1_Witness ==
  /\ engines[WHITE] = PLAYER
  /\ Len(moves) >= AUTOCHESS_MAX_PLIES
  /\ last.op = "click" /\ last.advanced

\* C2 as the specification states it, previewDuration being the preview
\* duration configured for the game: (a) the tick that stores a proposal
\* leaves position, ply count, last move and MoveRecords alone; (b) a tick
\* before pendingSetAt + previewDuration changes nothing of the game; (c) a
\* tick at or after that time, whose pending move is legal and whose
\* application the engine answers, commits exactly one move and clears the
\* pending move.
C2_Original ==
  [][ (dbWriter = TickProc /\ dbWriter' = NoProc /\ game.status = RUNNING) =>
        /\ (game.pending_move_uci = "" /\ game'.pending_move_uci # "") =>
             /\ game'.fen = game.fen /\ game'.ply_count = game.ply_count
             /\ game'.last_move_uci = game.last_move_uci /\ moves' = moves
        /\ (game.pending_move_uci # ""
              /\ clock < game.pending_move_set_at + game.preview_ms) =>
             /\ game'.fen = game.fen /\ game'.ply_count = game.ply_count
             /\ game'.pending_move_uci = game.pending_move_uci /\ moves' = moves
             /\ ~ last'.advanced
        /\ (game.pending_move_uci \in LegalMoves(game.fen)
              /\ clock >= game.pending_move_set_at + game.preview_ms
              /\ last'.exc = "none"
              /\ last'.message \notin {MsgEngineForfeit, MsgIllegal}) =>
             /\ Len(moves') = Len(moves) + 1
             /\ game'.ply_count = game.ply_count + 1
             /\ game'.pending_move_uci = ""
    ]_vars

\* C3 as the specification states it: on a Running game, a call of tick that
\* overlapped the atomic block of another call ends with the busy outcome,
\* and leaves the state of the game and its MoveRecords as they were.
C3_Original ==
  [][ (dbWriter = TickProc /\ txn.waited /\ dbWriter' = NoProc
         /\ game.status = RUNNING) =>
        /\ last'.message = MsgBusy /\ ~ last'.advanced
        /\ game'.status = game.status /\ game'.fen = game.fen
        /\ game'.ply_count = game.ply_count
        /\ game'.pending_move_uci = game.pending_move_uci
        /\ moves' = moves
    ]_vars

C5_PendingCleared ==
  /\ game.status \in {PAUSED, FINISHED} =>
       game.pending_move_uci = "" /\ game.pending_move_set_at = NoTime
  /\ last.advanced =>
       game.pending_move_uci = "" /\ game.pending_move_set_at = NoTime

\* A tick has just committed its pending move, and the move ended the game.
C5_Witness ==
  /\ last.op = "tick" /\ last.advanced
  /\ game.status = FINISHED
  /\ game.pending_move_uci = ""

\* C6 as the specification states it: when the mover of the side to move
\* fails during move selection (the position has legal moves, nothing is
\* pending, and the call ends with the engine's failure, caught or not), the
\* game is Finished, won by the opponent, with the forfeit reason, a
\* MatchRecord carries that result, and the MoveRecords are as before.
C6_Original ==
  [][ (/\ dbWriter = TickProc /\ dbWriter' = NoProc
       /\ game.status = RUNNING /\ game.pending_move_uci = ""
       /\ LegalMoves(game.fen) # {}
       /\ (last'.exc \in EngineFailures \/ last'.message = MsgEngineForfeit)) =>
        /\ game'.status = FINISHED
        /\ game'.result = (IF game.fen[2] = "w" THEN "0-1" ELSE "1-0")
        /\ game'.termination_reason = RESIGN
        /\ Len(matchRecords') = 1 /\ matchRecords'[1].result = game'.result
        /\ moves' = moves
    ]_vars

\* C7 as the specification states it: a call of tick that met a failure of
\* the external process leaves the game Finished by forfeit.
C7_Original ==
  (last.op = "tick" /\ (last.exc \in EngineFailures \/ last.message = MsgEngineForfeit)) =>
    (game.status = FINISHED /\ game.termination_reason = RESIGN)

\* C8 as the specification states it, for the embedded search (a mover that
\* always answers): when the side to move has no legal move and the mover is
\* asked, the game is Finished, as Checkmate won by the opponent when the
\* side to move is in check and as a Stalemate draw otherwise, and the
\* MoveRecords are as before.
C8_Original ==
  [][ (/\ dbWriter = TickProc /\ dbWriter' = NoProc
       /\ game.status = RUNNING /\ game.pending_move_uci = ""
       /\ (game.next_action_at = NoTime \/ clock >= game.next_action_at)
       /\ engines[SideOf(game.fen[2])] = PYCHESS
       /\ LegalMoves(game.fen) = {}) =>
        /\ game'.status = FINISHED
        /\ IF CheckerSquares(game.fen) # ""
           THEN /\ game'.termination_reason = CHECKMATE
                /\ game'.result = (IF game.fen[2] = "w" THEN "0-1" ELSE "1-0")
           ELSE /\ game'.termination_reason = STALEMATE
                /\ game'.result = "1/2-1/2"
        /\ moves' = moves
    ]_vars

\* C9: a tick whose application of the pending move yields an empty or an
\* unchanged position finishes the game as a forfeit lost by the side to
\* move, and leaves MoveRecords, position and ply count as they were; and a
\* due pending move that is not legal, once the engine has answered, is
\* treated so.
C9_IllegalMoveForfeits ==
  [][ (dbWriter = TickProc /\ dbWriter' = NoProc /\ game.status = RUNNING
         /\ game.pending_move_uci # "") =>
        /\ last'.message = MsgIllegal =>
             /\ game'.status = FINISHED
             /\ game'.termination_reason = RESIGN
             /\ game'.result = (IF game.fen[2] = "w" THEN "0-1" ELSE "1-0")
             /\ moves' = moves
             /\ game'.fen = game.fen /\ game'.ply_count = game.ply_count
        /\ (/\ game.pending_move_uci \notin LegalMoves(game.fen)
            /\ clock >= game.pending_move_set_at + preview_ms_for_game(game)
            /\ last'.exc = "none" /\ last'.message # MsgEngineForfeit) =>
             last'.message = MsgIllegal
    ]_vars

\* The engine proposed a move that is not legal, and the tick that applied it
\* has forfeited the game of the side to move.
C9_Witness ==
  /\ last.op = "tick" /\ last.message = MsgIllegal
  /\ game.status = FINISHED /\ game.termination_reason = RESIGN
  /\ game.result = (IF game.fen[2] = "w" THEN "0-1" ELSE "1-0")
  /\ game.ply_count = Len(moves)

\* C10 as the specification states it: after a tick has committed a move, the
\* recorded reason is the first that holds of MaxPlies (the ply count is at
\* the limit), Repetition (the key of the new MoveRecord occurs three times,
\* the initial key counted), FiftyMove (halfmove clock at 100) and
\* Insufficient, with result 1/2-1/2; when none holds the game is Running.
C10_Original ==
  [][ (dbWriter = TickProc /\ dbWriter' = NoProc /\ last'.advanced) =>
        LET key == moves'[Len(moves')].position_key_after
            reason ==
              IF game'.ply_count >= AUTOCHESS_MAX_PLIES THEN MAX_PLIES
              ELSE IF key # NoKey /\ KeyCount(game', moves', key) >= 3 THEN REPETITION
              ELSE IF halfmove_clock_from_fen(game'.fen) >= FIFTY_MOVE_HALFMOVES
              THEN FIFTY_MOVE
              ELSE IF is_insufficient_material(game'.fen) THEN INSUFFICIENT
              ELSE ""
        IN  IF reason = ""
            THEN game'.status = RUNNING
            ELSE /\ game'.status = FINISHED
                 /\ game'.termination_reason = reason
                 /\ game'.result = "1/2-1/2"
    ]_vars

\* C11 as the specification states it: from the same Running game and the
\* same legal move, the human move handler (the engine answering its key
\* inspection truthfully) and every committing run of the tick commit path
\* append the same MoveRecord, set the same next-action time and reach the
\* same status, result and termination reason.
C11_Original ==
  (game.status = RUNNING /\ game.pending_move_uci = "") =>
    \A m \in LegalMoves(game.fen) :
      LET after == LegalSucc(game.fen)[m]
          truthful == DisplayInfo(after, PositionKey(after), CheckerSquares(after))
          c == click_apply(game, moves, matchRecords, SideOf(game.fen[2]), m, clock,
                           truthful)
          pend == [game EXCEPT !.pending_move_uci = m, !.pending_move_set_at = clock]
      IN  \A r \in tick_commit(pend, pend, moves, matchRecords, clock,
                               preview_ms_for_game(game), m) :
            r.advanced =>
              /\ r.moves = c.moves
              /\ r.row.next_action_at = c.row.next_action_at
              /\ r.row.status = c.row.status
              /\ r.row.result = c.row.result
              /\ r.row.termination_reason = c.row.termination_reason


\* Occurrences of the position of `g` in its game: the starting position
\* and the positions recorded by the MoveRecords `ms`, compared by key.
OccurrencesOfPosition(g, ms) ==
  (IF PositionKey(STARTPOS_FEN) = PositionKey(g.fen) THEN 1 ELSE 0)
  + Cardinality({i \in 1..Len(ms) : ms[i].position_key_after = PositionKey(g.fen)})

\* C12 as the specification states it: a step that records a move below the
\* ply cap, into a position that still has legal moves, finishes the game as
\* a Repetition draw exactly when the resulting position, counted over the
\* starting position and all MoveRecords, has occurred three times; this
\* for every game, created new or by reset.
C12_Original ==
  [][ (Len(moves') = Len(moves) + 1 /\ game'.ply_count < AUTOCHESS_MAX_PLIES
        /\ LegalMoves(game'.fen) # {})
      => ((game'.status = FINISHED /\ game'.termination_reason = REPETITION)
           <=> OccurrencesOfPosition(game', moves') >= 3) ]_vars


\* C13: when tick commits a move below the ply cap and no Repetition draw
\* is declared, the game is finished as a FiftyMove draw exactly when the
\* halfmove clock of the resulting position is at least 100: 100 draws, and
\* at 99 the game is not a FiftyMove draw (it stays Running unless the
\* material is insufficient).
C13_FiftyMoveAtHundred ==
  [][ (last'.op = "tick" /\ last'.advanced /\ Len(moves') = Len(moves) + 1
        /\ game'.ply_count < AUTOCHESS_MAX_PLIES
        /\ ~(game'.status = FINISHED /\ game'.termination_reason = REPETITION))
      => /\ (game'.status = FINISHED /\ game'.termination_reason = FIFTY_MOVE)
              <=> halfmove_clock_from_fen(game'.fen) >= 100
         /\ (halfmove_clock_from_fen(game'.fen) = 99
              /\ ~is_insufficient_material(game'.fen)) => game'.status = RUNNING ]_vars

\* A tick has just committed the move that brought the halfmove clock to
\* exactly 100, below the ply cap, and the game is a FiftyMove draw.
C13_Witness ==
  /\ last.op = "tick" /\ last.advanced
  /\ game.ply_count < AUTOCHESS_MAX_PLIES
  /\ halfmove_clock_from_fen(game.fen) = 100
  /\ game.status = FINISHED /\ game.termination_reason = FIFTY_MOVE
  /\ game.result = "1/2-1/2"


\* C14 as the specification states it: a step that records the move which
\* brings the ply count to the cap finishes the game as a MaxPlies draw, in
\* tick and in the human move handler alike, and no game is Running with a
\* ply count at or above the cap.
C14_Original ==
  /\ (last.advanced /\ last.op \in {"tick", "click"}
        /\ game.ply_count >= AUTOCHESS_MAX_PLIES)
       => (game.status = FINISHED /\ game.result = "1/2-1/2"
            /\ game.termination_reason = MAX_PLIES)
  /\ ~(game.status = RUNNING /\ game.ply_count >= AUTOCHESS_MAX_PLIES)


\* C15 as the specification states it: a Finished game has exactly one
\* MatchRecord, carrying the game's result and termination reason, whatever
\* path finished it, and a MatchRecord only comes into being for a game
\* that is Finished.
C15_Original ==
  /\ [](game.status = FINISHED =>
          /\ Len(matchRecords) = 1
          /\ matchRecords[1].result = game.result
          /\ matchRecords[1].termination_reason = game.termination_reason)
  /\ [][Len(matchRecords') > Len(matchRecords) => game'.status = FINISHED]_vars


\* C16: a tick on a Running game whose position text has no valid
\* side-to-move field, once past its preview and interval waits, finishes
\* the game as a draw with reason Unknown; it proposes and applies no move,
\* adds no MoveRecord, and the pending move is empty afterwards.
C16_InvalidPositionDraw ==
  [][ (dbWriter = TickProc /\ dbWriter' = NoProc /\ game.status = RUNNING
        /\ side_to_move_from_fen(game.fen) = "ValueError"
        /\ last'.message \notin {MsgPreview, MsgWaiting})
      => /\ game'.status = FINISHED
         /\ game'.result = "1/2-1/2"
         /\ game'.termination_reason = UNKNOWN
         /\ game'.pending_move_uci = "" /\ game'.pending_move_set_at = NoTime
         /\ moves' = moves
         /\ game'.fen = game.fen /\ game'.ply_count = game.ply_count
         /\ game'.last_move_uci = game.last_move_uci
         /\ ~last'.advanced /\ last'.exc = "none" ]_vars

\* A tick has just closed a game that has a recorded move and whose position
\* text lacks the side to move: a draw with reason Unknown, nothing pending.
C16_Witness ==
  /\ last.op = "tick" /\ last.message = MsgBadFen
  /\ game.fen = FenNoSide
  /\ game.status = FINISHED /\ game.termination_reason = UNKNOWN
  /\ game.pending_move_uci = ""
  /\ Len(moves) = 1 /\ game.ply_count = 1


\* C17: a tick on a game that is Configured, Paused or Finished returns
\* advanced = false and leaves position, ply count, pending move,
\* next-action time, status, result, termination reason and MoveRecords as
\* they were, every time it is called.
C17_TickNoOpWhenNotRunning ==
  [][ (dbWriter = TickProc /\ game.status # RUNNING)
      => /\ game'.fen = game.fen
         /\ game'.ply_count = game.ply_count
         /\ game'.pending_move_uci = game.pending_move_uci
         /\ game'.pending_move_set_at = game.pending_move_set_at
         /\ game'.next_action_at = game.next_action_at
         /\ game'.status = game.status
         /\ game'.result = game.result
         /\ game'.termination_reason = game.termination_reason
         /\ moves' = moves
         /\ matchRecords' = matchRecords
         /\ (dbWriter' = NoProc => (~last'.advanced /\ last'.message = MsgNotRunning)) ]_vars

\* A tick has just returned from a Paused game that has a recorded move: not
\* advanced, and the time of its lock is the only trace.
C17_Witness ==
  /\ last.op = "tick" /\ last.message = MsgNotRunning /\ ~last.advanced
  /\ game.status = PAUSED
  /\ game.ply_count >= 1
  /\ game.tick_lock_at = clock


\* C18 as the specification states it: with a pending move present, a tick
\* on a Running game is the preview no-op exactly while the clock is before
\* pendingSetAt plus the preview duration configured for the game (0 to
\* 2000 ms), and goes on to the commit from that time on; with a preview
\* duration of 0 the tick that follows the proposal commits.
C18_Original ==
  [][ (dbWriter = TickProc /\ dbWriter' = NoProc /\ game.status = RUNNING
        /\ game.pending_move_uci # "" /\ game.pending_move_set_at # NoTime)
      => ((last'.message = MsgPreview /\ ~last'.advanced /\ moves' = moves
             /\ game'.pending_move_uci = game.pending_move_uci)
           <=> clock < game.pending_move_set_at + game.preview_ms) ]_vars

\* C19 as the specification states it: a step of tick or of the human move
\* handler that records a move at time t sets the next-action time to
\* t + max(0, moveInterval - previewDuration), taken from the interval and
\* the preview duration configured for the game and never before t, and a
\* tick stores a proposal only at or after the next-action time.
C19_Original ==
  [][ /\ (last'.op \in {"tick", "click"} /\ last'.advanced
            /\ Len(moves') = Len(moves) + 1)
          => /\ game'.next_action_at
                  = clock + Max(0, game.move_interval_ms - game.preview_ms)
             /\ game'.next_action_at >= clock
      /\ (dbWriter = TickProc /\ game.pending_move_uci = ""
            /\ game'.pending_move_uci # "")
          => (game.next_action_at = NoTime \/ clock >= game.next_action_at) ]_vars


\* C20: tick never works for a human side.  A pending move never belongs
\* to a side whose mover is a human player, also right after the mover was
\* switched while an engine preview was pending; and a tick on a Running
\* game whose side to move is a human player leaves position, ply count and
\* MoveRecords unchanged, leaves the pending move empty and returns
\* advanced = false.
C20_TickNeverMovesForHuman ==
  /\ [](game.pending_move_uci # "" => engines[SideOf(game.fen[2])] # PLAYER)
  /\ [][ (dbWriter = TickProc /\ game.status = RUNNING
            /\ engines[SideOf(game.fen[2])] = PLAYER)
          => /\ game'.fen = game.fen
             /\ game'.ply_count = game.ply_count
             /\ game'.last_move_uci = game.last_move_uci
             /\ moves' = moves
             /\ game'.pending_move_uci = ""
             /\ game'.status = RUNNING
             /\ (dbWriter' = NoProc => ~last'.advanced) ]_vars

\* A tick has just found Black, handed over to a human player in the
\* middle of the game, to move: it waits for the player, nothing pending.
C20_Witness ==
  /\ last.op = "tick" /\ last.message = MsgPlayer /\ ~last.advanced
  /\ game.status = RUNNING
  /\ engines[BLACK] = PLAYER /\ game.fen[2] = "b"
  /\ game.ply_count = 1 /\ Len(moves) = 1
  /\ game.pending_move_uci = ""


\* C21: the human move handler changes position, ply count, MoveRecords,
\* status or pending move only when the game is Running, no engine preview
\* is pending, the side to move is a human player and the submitted move is
\* legal in the current position, the new position being that move's; a
\* click on a square outside the board changes nothing in any state.
C21_ClickRejectsUnlessApplicable ==
  /\ [][ (last'.op = "click"
            /\ ( game'.fen # game.fen \/ game'.ply_count # game.ply_count
                 \/ moves' # moves \/ game'.status # game.status
                 \/ game'.pending_move_uci # game.pending_move_uci
                 \/ game'.pending_move_set_at # game.pending_move_set_at ))
          => /\ game.status = RUNNING
             /\ game.pending_move_uci = ""
             /\ engines[SideOf(game.fen[2])] = PLAYER
             /\ \E sq \in Squares : game'.last_move_uci = UciOf(game.ui_selected_from, sq)
             /\ game'.last_move_uci \in LegalMoves(game.fen)
             /\ game'.fen = LegalSucc(game.fen)[game'.last_move_uci]
             /\ game'.ply_count = game.ply_count + 1
             /\ Len(moves') = Len(moves) + 1 ]_vars
  /\ [](\A res \in click_square(game, moves, matchRecords, engines, clock, OffBoard) :
          res.row = game /\ res.moves = moves /\ ~ res.advanced)

\* A human player has just moved the knight out by two clicks: the move was
\* legal, is recorded, and the other side is to move.
C21_Witness ==
  /\ last.op = "click" /\ last.advanced
  /\ game.last_move_uci = UciA
  /\ game.ply_count >= 1 /\ Len(moves) = game.ply_count
  /\ moves[Len(moves)].uci = UciA
  /\ game.fen = moves[Len(moves)].fen_after


C23_LockAcquiredIffFreeOrStale ==
  /\ [](dbWriter = NoProc =>
          ( (ENABLED (TickAcquire(FALSE) /\ dbWriter' = TickProc))
            <=> ( game.tick_lock = FALSE \/ game.tick_lock_at = NoTime
                  \/ clock - game.tick_lock_at > 60 * 1000 ) ))
  /\ [][ (game.tick_lock /\ game.tick_lock_at # NoTime
            /\ clock - game.tick_lock_at <= 60 * 1000)
          => (dbWriter' = NoProc /\ game' = game /\ moves' = moves
               /\ (last' # last /\ last' # NoCall => last'.message = MsgBusy)) ]_vars

\* A tick is at work on a game whose lock was left set at time 0 and was
\* never released: 80 s later the lock is stale and the tick took it over.
C23_Witness ==
  /\ dbWriter = TickProc
  /\ game.tick_lock /\ game.tick_lock_at = 0
  /\ clock - game.tick_lock_at > 60 * 1000
  /\ Len(moves) = 0


\* ---------------------------------------------------------------------------
\* uci.py and engine.py: the UCI client, its engine process and its callers
\* ---------------------------------------------------------------------------

\* How many engine calls one thread makes.
MaxOps == 2

\* The position each thread asks the engine about.
FenOf(c) == IF c = "a" THEN STARTPOS_FEN ELSE FenOpen

\* The calls of the engine module a thread makes.
OpsOf(c) == IF c = "a" THEN {"inspect", "best"} ELSE {"inspect"}

\* One line of the engine's output: its first word, the move of a bestmove
\* line, and the position the engine had when it wrote the line.
Line(k, v, pos) == [k |-> k, v |-> v, pos |-> pos]

\* The steps of a call: a write to stdin (_send), or a read of _lines.
Send(cmd) == [i |-> "send", c |-> cmd, f |-> EmptyFen]
SendPosition(fen) == [i |-> "send", c |-> "position", f |-> fen]
WaitExact(token) == [i |-> "exact", c |-> token, f |-> EmptyFen]
WaitPrefix(prefix) == [i |-> "prefix", c |-> prefix, f |-> EmptyFen]
ReadDump == [i |-> "dump", c |-> "readyok", f |-> EmptyFen]

\* UciProcess.is_ready: "isready", then wait for "readyok".
is_ready == << Send("isready"), WaitExact("readyok") >>

\* UciProcess.start after Popen, and the set_option of EnginePool.get.
StartSteps == << Send("uci"), WaitExact("uciok"), Send("setoption") >> \o is_ready

\* UciProcess.new_game, set_option and position_fen.
new_game == << Send("ucinewgame") >> \o is_ready
set_option == << Send("setoption") >> \o is_ready
position_fen(fen) == << SendPosition(fen) >>

\* configure_engine without extra options: new_game and the two strength options.
configure_engine == new_game \o set_option \o set_option

\* inspect_position after pool().get(): new_game, position_fen, is_ready, display.
InspectSteps(fen) ==
  new_game \o position_fen(fen) \o is_ready
    \o << Send("d"), Send("isready"), ReadDump >>

\* best_move for the Stockfish engine after pool().get().
BestMoveSteps(fen) ==
  configure_engine \o position_fen(fen) \o is_ready
    \o << Send("go"), WaitPrefix("bestmove") >>

Steps(op, fen) ==
  CASE op = "get" -> StartSteps
    [] op = "inspect" -> InspectSteps(fen)
    [] op = "best" -> BestMoveSteps(fen)
    [] OTHER -> << >>

\* What the engine writes on a command.  `dumpOk` is whether its dump has the
\* Fen line, `moveOk` whether its bestmove line names a move.
EngineOutput(cmd, position, dumpOk, moveOk) ==
  CASE cmd = "uci" -> << Line("uciok", "", EmptyFen) >>
    [] cmd = "isready" -> << Line("readyok", "", EmptyFen) >>
    [] cmd = "go" ->
         << Line("bestmove",
                 IF ~ moveOk THEN ""
                 ELSE IF LegalMoves(position) = {} THEN "(none)" ELSE UciA,
                 position) >>
    [] cmd = "d" ->
         (IF dumpOk THEN << Line("Fen", "", position) >> ELSE << >>)
         \o << Line("Key", "", position) >>
    [] OTHER -> << >>

\* The lines the engine writes, each with the command it answers: the thread,
\* the number of calls the thread had ended before, the call and its step.
WrittenFor(out, cmd) ==
  [j \in 1 .. Len(out) |-> [k |-> out[j].k, v |-> out[j].v, pos |-> out[j].pos,
                            by |-> cmd]]

\* A call ends: the thread is outside the engine module again.
Ended(cr, op, res, fen, mv) ==
  [cr EXCEPT !.op = "idle", !.then = "idle", !.pc = 0, !.done = cr.done + 1,
             !.of = op, !.res = res, !.fen = fen, !.move = mv]

\* The step after this one: the next step of the call, the call proper after
\* EnginePool.get, or the end of the call.
Advanced(cr, c) ==
  IF cr.pc < Len(Steps(cr.op, FenOf(c))) THEN [cr EXCEPT !.pc = cr.pc + 1]
  ELSE IF cr.op = "get" THEN [cr EXCEPT !.op = cr.then, !.then = "idle", !.pc = 1]
  ELSE Ended(cr, cr.op, "ok", cr.fen, cr.move)

\* The pool after a step of the thread that holds its lock: EnginePool.get
\* leaves the with block when start and set_option are through.
PoolAfter(cr, c) ==
  IF cr.op = "get" /\ cr.pc = Len(StartSteps)
  THEN [pool EXCEPT !.ready = TRUE, !.lock = NoCaller]
  ELSE pool

\* The pool after an exception in the thread: the with block of EnginePool.get
\* is left, _engine keeps the instance it was given.
PoolRaised(cr) == IF cr.op = "get" THEN [pool EXCEPT !.lock = NoCaller] ELSE pool

\* A thread calls inspect_position or best_move.  pool().get() takes the pool
\* lock; without an engine it makes one, assigns it and starts it (Popen may
\* fail); with one it returns it as it is.  The first command of the call to a
\* client without a process raises UciError in _ensure.
CallerBegin(c, op) ==
  /\ callers[c].op = "idle"
  /\ callers[c].done < MaxOps
  /\ op \in OpsOf(c)
  /\ pool.lock = NoCaller
  /\ IF pool.engine = "none"
     THEN \E popen \in BOOLEAN :
            /\ pool' = [pool EXCEPT !.engine = "set",
                                    !.lock = IF popen THEN c ELSE NoCaller]
            /\ engineProc' = [engineProc EXCEPT !.proc = IF popen THEN "up" ELSE "none"]
            /\ callers' = [callers EXCEPT ![c] =
                 IF popen THEN [@ EXCEPT !.op = "get", !.then = op, !.pc = 1,
                                         !.of = "none", !.res = "none",
                                         !.fen = EmptyFen, !.move = ""]
                 ELSE Ended(@, op, "OSError", EmptyFen, "")]
     ELSE /\ callers' = [callers EXCEPT ![c] =
                 IF engineProc.proc = "up"
                 THEN [@ EXCEPT !.op = op, !.pc = 1, !.of = "none", !.res = "none",
                                !.fen = EmptyFen, !.move = ""]
                 ELSE Ended(@, op, "UciError", EmptyFen, "")]
          /\ engineProc' = [engineProc EXCEPT
                 !.errored = @ \/ engineProc.proc # "up"]
          /\ UNCHANGED pool
  /\ UNCHANGED << outbox, lines >>
  /\ UNCHANGED << game, moves, matchRecords, engines, clock, dbWriter, txn, waiting,
                  last, starts, call, rowVars >>

\* _send: one write to the engine's stdin, under _write_lock.  The engine takes
\* the command at once: "position" sets its position, the others are answered.
CallerSend(c) ==
  LET cr == callers[c]
      st == Steps(cr.op, FenOf(c))[cr.pc]
  IN  /\ cr.op # "idle"
      /\ st.i = "send"
      /\ \E dumpOk \in (IF st.c = "d" THEN BOOLEAN ELSE {TRUE}),
            moveOk \in (IF st.c = "go" THEN BOOLEAN ELSE {TRUE}) :
           outbox' = outbox \o WrittenFor(
                       EngineOutput(st.c, engineProc.position, dumpOk, moveOk),
                       << c, cr.done, cr.op, cr.pc >>)
      /\ engineProc' = IF st.c = "position"
                       THEN [engineProc EXCEPT !.position = st.f] ELSE engineProc
      /\ callers' = [callers EXCEPT ![c] = Advanced(cr, c)]
      /\ UNCHANGED << pool, lines >>
      /\ UNCHANGED << game, moves, matchRecords, engines, clock, dbWriter, txn,
                      waiting, last, starts, call, rowVars >>

\* _read_loop: the reader thread puts the engine's next line into _lines.
ReadLoop ==
  /\ outbox # << >>
  /\ lines' = Append(lines, Head(outbox))
  /\ outbox' = Tail(outbox)
  /\ UNCHANGED << pool, engineProc, callers >>
  /\ UNCHANGED << game, moves, matchRecords, engines, clock, dbWriter, txn, waiting,
                  last, starts, call, rowVars >>


\* UciError leaves the call; the process and the lines in the queue stay.
Raised_UciError(cr) ==
  Ended(cr, IF cr.op = "get" THEN cr.then ELSE cr.op, "UciError", EmptyFen, "")

\* go_movetime on the bestmove line it waited for: a line without a move is
\* UciError, else the move of the line is the answer.
go_movetime(cr, l) ==
  IF l.v = "" THEN Raised_UciError(cr) ELSE Ended(cr, cr.op, "ok", l.pos, l.v)

\* display on one line of the queue: it keeps the Fen line, ends on readyok
\* with what it has, and skips every other line.
display_line(cr, l) ==
  IF l.k = "Fen" THEN [cr EXCEPT !.fen = l.pos]
  ELSE IF l.k = "readyok" THEN Ended(cr, cr.op, "ok", cr.fen, "")
  ELSE cr

\* _wait_for_exact, _wait_for_prefix and the loop of display take the next
\* line of _lines; a line that is not the awaited one is thrown away.
CallerRead(c) ==
  LET cr == callers[c]
      st == Steps(cr.op, FenOf(c))[cr.pc]
      l  == Head(lines)
      nx == CASE st.i = "exact" -> (IF l.k = st.c THEN Advanced(cr, c) ELSE cr)
              [] st.i = "prefix" -> (IF l.k = st.c THEN go_movetime(cr, l) ELSE cr)
              [] OTHER -> display_line(cr, l)
  IN  /\ cr.op # "idle"
      /\ st.i # "send"
      /\ lines # << >>
      /\ lines' = Tail(lines)
      /\ callers' = [callers EXCEPT ![c] = nx]
      /\ pool' = IF st.i = "exact" /\ l.k = st.c THEN PoolAfter(cr, c) ELSE pool
      /\ engineProc' = [engineProc EXCEPT !.errored = @ \/ nx.res = "UciError"]
      /\ UNCHANGED outbox
      /\ UNCHANGED << game, moves, matchRecords, engines, clock, dbWriter, txn,
                      waiting, last, starts, call, rowVars >>

\* queue.Empty: no line came within the timeout of the wait.
CallerTimeout(c) ==
  LET cr == callers[c]
      st == Steps(cr.op, FenOf(c))[cr.pc]
  IN  /\ cr.op # "idle"
      /\ st.i # "send"
      /\ lines = << >>
      /\ callers' = [callers EXCEPT ![c] = Raised_UciError(cr)]
      /\ pool' = PoolRaised(cr)
      /\ engineProc' = [engineProc EXCEPT !.errored = TRUE]
      /\ UNCHANGED << outbox, lines >>
      /\ UNCHANGED << game, moves, matchRecords, engines, clock, dbWriter, txn,
                      waiting, last, starts, call, rowVars >>

NextUci ==
  \/ \E c \in Callers, op \in {"inspect", "best"} : CallerBegin(c, op)
  \/ \E c \in Callers : CallerSend(c)
  \/ \E c \in Callers : CallerRead(c)
  \/ \E c \in Callers : CallerTimeout(c)
  \/ ReadLoop

\* Two threads use the engine module of a process whose game is at rest.
SpecUci == Init /\ [][NextUci]_vars


C25_Original ==
  \A c \in Callers :
    (callers[c].op = "idle" /\ callers[c].of = "inspect" /\ callers[c].res = "ok")
      => callers[c].fen # EmptyFen


\* C26 (as stated): once a call on the engine process has raised the protocol
\* error, no thread starts another call on that same process (the pool never
\* restarts it, so the process of a later call is the one that raised).
C26_Original ==
  [][ \A c \in Callers :
        (callers[c].op = "idle" /\ callers'[c].op # "idle" /\ engineProc.proc = "up")
          => ~ engineProc.errored ]_vars


\* ---------------------------------------------------------------------------
\* A Running game of two engines under a polling client (tests.py 31-53)
\* ---------------------------------------------------------------------------

\* A Running game at the start position, begun at time 0, both movers engines.
InitLive ==
  /\ \E sp \in SpeedChoices :
       game = [status |-> RUNNING, fen |-> STARTPOS_FEN, side_to_move |-> "w",
               ply_count |-> 0, move_interval_ms |-> sp[1], preview_ms |-> sp[2],
               next_action_at |-> 0, last_move_uci |-> "",
               pending_move_uci |-> "", pending_move_set_at |-> NoTime,
               ui_selected_from |-> "", ui_selected_to |-> "",
               tick_lock |-> FALSE, tick_lock_at |-> NoTime,
               result |-> "", termination_reason |-> "",
               initial_position_key |-> PositionKey(STARTPOS_FEN)]
  /\ moves = << >>
  /\ matchRecords = << >>
  /\ engines \in [{WHITE, BLACK} -> {STOCKFISH, PYCHESS}]
  /\ clock = 0
  /\ dbWriter = NoProc
  /\ txn = Idle
  /\ waiting = FALSE
  /\ last = NoCall
  /\ starts = 1
  /\ UciInit
  /\ call = NoFunction
  /\ RowsInit

\* The client polls: time passes once a call of tick has returned in the
\* present step of the clock.
AdvanceLive ==
  /\ last.op = "tick" /\ last.exc = "none"
  /\ \E d \in AdvanceSteps : Advance(d)

\* A call of tick in which the engine answers: the call returns.
TickAnswered == TickBody /\ last'.exc = "none"

NextLive == TickAcquire(FALSE) \/ TickBody \/ AdvanceLive

\* The client keeps calling tick, time keeps passing, and the engines answer
\* again and again.
SpecLive ==
  /\ InitLive /\ [][NextLive]_vars
  /\ WF_vars(TickAcquire(FALSE)) /\ SF_vars(AdvanceLive) /\ SF_vars(TickAnswered)

\* C27: a Running game of two engines that answer does not stay Running at
\* ply 0 for ever: under repeated calls of tick while time passes, a move is
\* committed or the game is finished.
C27_EventuallyMovesOrFinishes ==
  <>(game.ply_count >= 1 \/ game.status = FINISHED)

\* A call of tick has committed the first move of the game of two engines.
C27_Witness ==
  /\ game.status = RUNNING /\ game.ply_count = 1
  /\ last.op = "tick" /\ last.advanced
  /\ PLAYER \notin {engines[WHITE], engines[BLACK]}


\* ---------------------------------------------------------------------------
\* Functions without side effects, called on arguments of bounded sets
\* ---------------------------------------------------------------------------

\* The process at rest while a function is called: a Configured game, no
\* transaction, an engine client that was never used.
AtRestGame ==
  /\ game = [status |-> CONFIGURED, fen |-> STARTPOS_FEN, side_to_move |-> "w",
             ply_count |-> 0, move_interval_ms |-> 200, preview_ms |-> 200,
             next_action_at |-> NoTime, last_move_uci |-> "",
             pending_move_uci |-> "", pending_move_set_at |-> NoTime,
             ui_selected_from |-> "", ui_selected_to |-> "",
             tick_lock |-> FALSE, tick_lock_at |-> NoTime,
             result |-> "", termination_reason |-> "",
             initial_position_key |-> PositionKey(STARTPOS_FEN)]
  /\ moves = << >>
  /\ matchRecords = << >>
  /\ engines = [s \in {WHITE, BLACK} |-> IF s = WHITE THEN PYCHESS ELSE STOCKFISH]
  /\ clock = 0
  /\ dbWriter = NoProc
  /\ txn = Idle
  /\ waiting = FALSE
  /\ last = NoCall
  /\ starts = 0
  /\ UciInit

AtRest == AtRestGame /\ RowsInit

\* The result field of a call that has not returned yet.
NoResult == -1

\* ------------------------------------------------ engine.py, lines 288-324

SKILL == "SKILL"
ELO == "ELO"

\* EngineConfig.strength_value: the skill levels, and target ratings around
\* the steps of the table.
SkillLevels == 1 .. 20
EloRatings ==
  {800, 1099, 1100, 1499, 1500, 1899, 1900, 2299, 2300, 3200}
StrengthValues(mode) == IF mode = SKILL THEN SkillLevels ELSE EloRatings

\* EngineConfig.movetime_ms: budgets around the two thresholds.
MovetimeChoices == {0, 50, 150, 499, 500, 999, 1000, 5000}

\* The base depth of the configured strength, lines 290-315.
BaseDepth(mode, v) ==
  IF mode = SKILL
  THEN IF v <= 3 THEN 1
       ELSE IF v <= 6 THEN 2
       ELSE IF v <= 10 THEN 3
       ELSE IF v <= 14 THEN 4
       ELSE IF v <= 17 THEN 5
       ELSE 6
  ELSE IF v < 1100 THEN 2
       ELSE IF v < 1500 THEN 3
       ELSE IF v < 1900 THEN 4
       ELSE IF v < 2300 THEN 5
       ELSE 6

\* Line 318: int(getattr(cfg, "movetime_ms", 150) or 150).
MovetimeOr150(movetime_ms) == IF movetime_ms = 0 THEN 150 ELSE movetime_ms

\* Lines 319-322: the extra depth of a larger budget.
TimeBonus(mt) == (IF mt >= 500 THEN 1 ELSE 0) + (IF mt >= 1000 THEN 1 ELSE 0)

\* A faulty end of the function that returns the depth as it is.
ClampDepth_missing(d) == d

\* Line 324: max(1, min(7, d)).
ClampDepth(d) == Max(1, IF d < 7 THEN d ELSE 7)

depth_from_strength(mode, v, movetime_ms) ==
  ClampDepth(BaseDepth(mode, v) + TimeBonus(MovetimeOr150(movetime_ms)))

\* A configuration is drawn; _depth_from_strength is called on it.
InitDepth ==
  /\ AtRest
  /\ \E mode \in {SKILL, ELO} :
       \E v \in StrengthValues(mode), mt \in MovetimeChoices :
         call = [fn |-> "_depth_from_strength", mode |-> mode, value |-> v,
                 movetime_ms |-> mt, ret |-> NoResult]

DepthFromStrength ==
  /\ call.ret = NoResult
  /\ call' = [call EXCEPT !.ret = depth_from_strength(call.mode, call.value,
                                                      call.movetime_ms)]
  /\ UNCHANGED << game, moves, matchRecords, engines, clock, dbWriter, txn, waiting,
                  last, starts, uciVars, rowVars >>

NextDepth == DepthFromStrength

SpecDepth == InitDepth /\ [][NextDepth]_vars

\* C28: for every skill level 1..20 or target rating 800..3200 and every time
\* budget the depth lies in 1..7, does not fall when the strength or the
\* budget grows, and exceeds the depth of the same strength at the smallest
\* budget by 0 below 500 ms, by at most 1 below 1000 ms and by at most 2
\* above (by 1 and 2 exactly wherever the cap of 7 is not reached).
C28_DepthInRangeAndMonotone ==
  call.ret # NoResult =>
    LET d == call.ret
        base == depth_from_strength(call.mode, call.value, 50)
        add == d - base
    IN  /\ d \in 1 .. 7
        /\ \A v \in StrengthValues(call.mode) :
             v >= call.value
               => depth_from_strength(call.mode, v, call.movetime_ms) >= d
        /\ \A mt \in MovetimeChoices :
             mt >= call.movetime_ms
               => depth_from_strength(call.mode, call.value, mt) >= d
        /\ add \in 0 .. 2
        /\ call.movetime_ms < 500 => add = 0
        /\ (call.movetime_ms >= 500 /\ call.movetime_ms < 1000) => add = 1
        /\ call.movetime_ms >= 1000 => add = (IF base + 2 <= 7 THEN 2 ELSE 7 - base)

\* The depth of the top skill level at a budget of a second: 6 and 2, capped.
C28_Witness ==
  /\ call.fn = "_depth_from_strength" /\ call.mode = SKILL /\ call.value = 20
  /\ call.movetime_ms = 1000 /\ call.ret = 7


\* ------------------------------------------------ engine.py, lines 233-382

MATE_SCORE == 10000000

\* A position of the search is the line of moves that leads to it from the
\* root.  The root has the moves g1f3 and e2e4, in the order of _order_moves;
\* each answer to them has two replies; none of the moves is a capture, and
\* no position is a mate or a stalemate.
SearchChildren(n) ==
  IF Len(n) = 0 THEN << << UciA >>, << UciB >> >>
  ELSE IF Len(n) = 1 THEN << n \o << "r1" >>, n \o << "r2" >> >>
  ELSE << >>

SearchNodes ==
  { << >>, << UciA >>, << UciB >>, << UciA, "r1" >>, << UciA, "r2" >>,
    << UciB, "r1" >>, << UciB, "r2" >> }

\* _evaluate of each position, from the side to move, for a few boards: a
\* board on which e2e4 is better only at depth 2, one on which g1f3 is best at
\* both depths, one on which e2e4 is best at both, one of equal values.
EvalOf(ea, eb, a1, a2, b1, b2) ==
  [ n \in SearchNodes |->
      CASE n = << UciA >> -> ea
        [] n = << UciB >> -> eb
        [] n = << UciA, "r1" >> -> a1
        [] n = << UciA, "r2" >> -> a2
        [] n = << UciB, "r1" >> -> b1
        [] n = << UciB, "r2" >> -> b2
        [] OTHER -> 0 ]

SearchBoards ==
  { EvalOf(-10, -5, -50, 0, 20, 30),
    EvalOf(-10, -5, 40, 60, 20, 30),
    EvalOf(-5, -10, 20, 30, 60, 40),
    EvalOf(0, 0, 0, 0, 0, 0) }

\* How many readings of time.monotonic() a search of depth 2 makes at most.
SearchChecks == 24

\* time.monotonic() >= end_t at a reading of the clock, `k` being the number
\* of readings that still fall before the deadline.
TimeUp(k) == k = 0

\* _quiesce on a position without captures.
quiesce(ev, n, alpha, beta, k) ==
  IF TimeUp(k) THEN [v |-> ev[n], k |-> 0]
  ELSE IF ev[n] >= beta THEN [v |-> beta, k |-> k - 1]
  ELSE [v |-> Max(alpha, ev[n]), k |-> k - 1]

RECURSIVE negamax(_, _, _, _, _, _)
RECURSIVE negamax_moves(_, _, _, _, _, _, _, _)

\* The loop of _negamax over the ordered moves, from move i on.
negamax_moves(ev, ms, i, depth, alpha, beta, best, k) ==
  IF i > Len(ms) \/ TimeUp(k) THEN [v |-> best, k |-> k]
  ELSE LET r == negamax(ev, ms[i], depth - 1, 0 - beta, 0 - alpha, k - 1)
           best1 == Max(best, 0 - r.v)
           alpha1 == Max(alpha, best1)
       IN  IF alpha1 >= beta THEN [v |-> best1, k |-> r.k]
           ELSE negamax_moves(ev, ms, i + 1, depth, alpha1, beta, best1, r.k)

\* _negamax; the result is the value and the readings left.
negamax(ev, n, depth, alpha, beta, k) ==
  IF TimeUp(k) THEN [v |-> ev[n], k |-> 0]
  ELSE IF depth <= 0 THEN quiesce(ev, n, alpha, beta, k - 1)
  ELSE IF SearchChildren(n) = << >> THEN [v |-> 0, k |-> k - 1]
  ELSE negamax_moves(ev, SearchChildren(n), 1, depth, alpha, beta,
                     0 - MATE_SCORE, k - 1)

RECURSIVE search_moves(_, _, _, _, _, _, _, _)
RECURSIVE search_depths(_, _, _, _, _, _, _)

\* The candidates a depth has, and the depths of the search tree.
NoiseDraws == (1 .. 2) \X (1 .. 2)

\* Line 343: noise = 0.0; nothing is added to any value.
NoNoise == [d \in NoiseDraws |-> 0]

\* _pychess_choose_move, lines 365-374: the candidates of one depth; nz is
\* what int(random.uniform(-1, 1) * 200 * noise) adds to the value of the
\* i-th candidate at each depth.
search_moves(ev, ordered, i, depth, cur_move, cur_score, k, nz) ==
  IF i > Len(ordered) \/ TimeUp(k) THEN [move |-> cur_move, k |-> k]
  ELSE LET r == negamax(ev, ordered[i], depth - 1, 0 - MATE_SCORE, MATE_SCORE, k - 1)
           val == (0 - r.v) + nz[<< depth, i >>]
       IN  IF val > cur_score
           THEN search_moves(ev, ordered, i + 1, depth, ordered[i], val, r.k, nz)
           ELSE search_moves(ev, ordered, i + 1, depth, cur_move, cur_score, r.k, nz)

\* _pychess_choose_move, lines 356-380: iterative deepening.
search_depths(ev, ordered, depth, target_depth, best_mv, k, nz) ==
  IF depth > target_depth \/ TimeUp(k) THEN best_mv
  ELSE LET r == search_moves(ev, ordered, 1, depth, best_mv, 0 - MATE_SCORE, k - 1, nz)
           rest == SelectSeq(ordered, LAMBDA m : m # r.move)
       IN  search_depths(ev, << r.move >> \o rest, depth + 1, target_depth,
                         r.move, r.k, nz)

\* _pychess_choose_move without noise: the move of the line chosen, the
\* deadline falling after `k` readings of the clock.
choose_move_search(ev, target_depth, k) ==
  LET ordered == SearchChildren(<< >>)
  IN  search_depths(ev, ordered, 1, target_depth, ordered[1], k, NoNoise)[1]

\* A board and the place of the deadline are drawn; the search of depth 2 (a
\* target rating below 1100, no noise) is called.
InitSearch ==
  /\ AtRest
  /\ \E ev \in SearchBoards, k \in 0 .. SearchChecks :
       call = [fn |-> "_pychess_choose_move", board |-> ev, depth |-> 2,
               deadline |-> k, ret |-> ""]

PychessChooseMove ==
  /\ call.ret = ""
  /\ call' = [call EXCEPT !.ret = choose_move_search(call.board, call.depth,
                                                     call.deadline)]
  /\ UNCHANGED << game, moves, matchRecords, engines, clock, dbWriter, txn, waiting,
                  last, starts, uciVars, rowVars >>

NextSearch == PychessChooseMove

SpecSearch == InitSearch /\ [][NextSearch]_vars

\* C29 (as stated): without noise the search of a position at a depth and a
\* time budget returns the same move wherever the deadline falls in the run.
C29_Original ==
  call.ret # "" =>
    \A k \in 0 .. SearchChecks :
      choose_move_search(call.board, call.depth, k) = call.ret


\* ----------------------------------------------------- fen.py, lines 135-171

\* How many pieces besides the two kings a drawn position has at most.
MaxExtraPieces == 3

PieceLetters == {"P", "p", "R", "r", "Q", "q", "N", "n", "B", "b"}

\* The piece letters of the placement field: the kings and up to
\* MaxExtraPieces further pieces.
MaterialPlacements ==
  { << "K", "k" >> \o extra :
      extra \in UNION { [1 .. n -> PieceLetters] : n \in 0 .. MaxExtraPieces } }

\* A position is drawn; is_insufficient_material is called on its text.
InitMaterial ==
  /\ AtRest
  /\ \E placement \in MaterialPlacements :
       call = [fn |-> "is_insufficient_material",
               fen |-> << placement, "w", "-", "-", 0, 1 >>,
               done |-> FALSE, ret |-> FALSE]

IsInsufficientMaterial ==
  /\ ~ call.done
  /\ call' = [call EXCEPT !.done = TRUE, !.ret = is_insufficient_material(call.fen)]
  /\ UNCHANGED << game, moves, matchRecords, engines, clock, dbWriter, txn, waiting,
                  last, starts, uciVars, rowVars >>

NextMaterial == IsInsufficientMaterial

SpecMaterial == InitMaterial /\ [][NextMaterial]_vars

\* C30: is_insufficient_material is true exactly for bare kings, for one
\* knight or one bishop as the only piece besides the kings, and for bishops
\* only with at most one on each side; it is false with any pawn, rook or
\* queen, with two knights, with a knight against a knight or a bishop, and
\* with two bishops on one side.
C30_InsufficientExactly ==
  call.done =>
    LET p == call.fen[1]
        N(x) == CountOf(p, x)
        heavy == N("P") + N("p") + N("R") + N("r") + N("Q") + N("q")
        knights == N("N") + N("n")
        bishops == N("B") + N("b")
    IN  /\ call.ret <=>
             \/ heavy + knights + bishops = 0
             \/ heavy = 0 /\ knights + bishops = 1
             \/ heavy = 0 /\ knights = 0 /\ N("B") <= 1 /\ N("b") <= 1
        /\ heavy > 0 => ~ call.ret
        /\ knights >= 2 => ~ call.ret
        /\ (knights >= 1 /\ bishops >= 1) => ~ call.ret
        /\ (N("B") >= 2 \/ N("b") >= 2) => ~ call.ret

\* The function has answered for a position with a bishop on each side.
C30_Witness ==
  /\ call.fn = "is_insufficient_material" /\ call.done
  /\ call.fen[1] = << "K", "k", "B", "b" >> /\ call.ret


\* C31 (as stated): in every reachable state the result and the termination
\* reason of the game are set exactly when its status is Finished, and a
\* result that is set is 1-0, 0-1 or 1/2-1/2.
C31_Original ==
  /\ (game.status = FINISHED) <=> (game.result # "")
  /\ (game.status = FINISHED) <=> (game.termination_reason # "")
  /\ game.result \in {"", "1-0", "0-1", "1/2-1/2"}


\* The iteration of depth 1 run to its end on board `ev`: its best move and
\* the readings of the clock it has made.
CompleteDepth1(ev) ==
  LET r == search_moves(ev, SearchChildren(<< >>), 1, 1, SearchChildren(<< >>)[1],
                        0 - MATE_SCORE, 2 * SearchChecks, NoNoise)
  IN  [move |-> r.move, used |-> 1 + (2 * SearchChecks - r.k)]

\* The readings of the clock the iterations of depth 1 and 2 make together
\* when both run to their end.
CompleteDepth2Used(ev) ==
  LET d1 == CompleteDepth1(ev)
      ordered == << d1.move >>
                   \o SelectSeq(SearchChildren(<< >>), LAMBDA m : m # d1.move)
      r == search_moves(ev, ordered, 1, 2, d1.move, 0 - MATE_SCORE, 2 * SearchChecks,
                        NoNoise)
  IN  d1.used + 1 + (2 * SearchChecks - r.k)

\* C32 (as stated): when the deadline passes in the middle of the iteration of
\* depth 2, the search returns the best move of the completed iteration of
\* depth 1, not a move picked among the partly searched candidates of depth 2.
C32_Original ==
  (call.ret # "" /\ call.deadline >= CompleteDepth1(call.board).used
     /\ call.deadline < CompleteDepth2Used(call.board))
    => call.ret = CompleteDepth1(call.board).move[1]


\* C33 (as stated): a call of tick for a side moved by the embedded search
\* does not depend on the engine process: whatever that process does, the
\* call neither forfeits the side for an engine failure nor ends in an
\* exception of the engine client.
C33_Original ==
  [][ ( dbWriter = TickProc /\ dbWriter' = NoProc
        /\ game.status = RUNNING /\ Len(game.fen) >= 2
        /\ engines[SideOf(game.fen[2])] = PYCHESS )
      => ( last'.exc \notin EngineFailures /\ last'.message # MsgEngineForfeit ) ]_vars


\* ---------------------------------------------------------------------------
\* ensure_engine_rows (game_loop.py 22-49) under concurrent requests
\* ---------------------------------------------------------------------------

\* How often one request thread shows the game page.
MaxViews == 2

\* game_view, line 103, outside any transaction: line 31 reads the rows the
\* game has.
EnsureRead(v) ==
  /\ viewers[v].pc = "idle"
  /\ viewers[v].calls < MaxViews
  /\ viewers' = [viewers EXCEPT ![v] =
       [pc |-> WHITE, existing |-> {s \in {WHITE, BLACK} : engineRows[s] > 0},
        res |-> "none", calls |-> @.calls + 1]]
  /\ UNCHANGED engineRows
  /\ UNCHANGED << game, moves, matchRecords, engines, clock, dbWriter, txn, waiting,
                  last, starts, uciVars, call >>

\* EngineConfig.objects.create under unique_together (game, side): the row is
\* inserted, or IntegrityError when the side has a row by now.
CreateRow(rows, side) ==
  IF rows[side] > 0 THEN [rows |-> rows, exc |-> "IntegrityError"]
  ELSE [rows |-> [rows EXCEPT ![side] = 1], exc |-> "none"]

\* Lines 32-49 for one side: the row is created when the read did not show it.
EnsureSide(v) ==
  LET vr == viewers[v]
      side == vr.pc
      made == IF side \in vr.existing THEN [rows |-> engineRows, exc |-> "none"]
              ELSE CreateRow(engineRows, side)
  IN  /\ vr.pc \in {WHITE, BLACK}
      /\ dbWriter = NoProc
      /\ engineRows' = made.rows
      /\ viewers' = [viewers EXCEPT ![v] =
           IF made.exc # "none" THEN [@ EXCEPT !.pc = "idle", !.res = made.exc]
           ELSE IF side = WHITE THEN [@ EXCEPT !.pc = BLACK]
           ELSE [@ EXCEPT !.pc = "idle", !.res = "ok"]]
      /\ UNCHANGED << game, moves, matchRecords, engines, clock, dbWriter, txn,
                      waiting, last, starts, uciVars, call >>

\* tick, line 90, inside its transaction after the lock UPDATE: the read and
\* the creations happen with the database write lock held.
EnsureInTick ==
  LET existing == {s \in {WHITE, BLACK} : engineRows[s] > 0}
  IN  /\ dbWriter = NoProc
      /\ existing # {WHITE, BLACK}
      /\ engineRows' = [s \in {WHITE, BLACK} |-> 1]
      /\ UNCHANGED viewers
      /\ UNCHANGED << game, moves, matchRecords, engines, clock, dbWriter, txn,
                      waiting, last, starts, uciVars, call >>

\* A Game row made without its EngineConfig rows, or with one of them (the
\* site administration, models.py 117-118 allowing at most one per side).
InitRows ==
  /\ AtRestGame /\ call = NoFunction
  /\ engineRows \in [{WHITE, BLACK} -> {0, 1}]
  /\ viewers = [v \in Viewers |-> IdleViewer]

NextRows ==
  \/ \E v \in Viewers : EnsureRead(v)
  \/ \E v \in Viewers : EnsureSide(v)
  \/ EnsureInTick

SpecRows == InitRows /\ [][NextRows]_vars

\* C34 (as stated): whatever the interleaving of the calls of
\* ensure_engine_rows, each side has at most one row, a call that has ended
\* leaves exactly one row for each side, and no call fails because another
\* call created the row first.
C34_Original ==
  /\ \A s \in {WHITE, BLACK} : engineRows[s] <= 1
  /\ \A v \in Viewers :
       /\ viewers[v].res # "IntegrityError"
       /\ viewers[v].res = "ok" => \A s \in {WHITE, BLACK} : engineRows[s] = 1


\* C35 (as stated): Finished is absorbing: no call of tick, of the human move
\* handler, of start or of pause changes the status, the position, the ply
\* count, the result, the termination reason or the Move rows of a Finished
\* game (reset makes a new game and is left aside).
C35_Original ==
  [][ (game.status = FINISHED /\ last'.op # "reset")
      => ( /\ game'.status = FINISHED
           /\ game'.fen = game.fen
           /\ game'.ply_count = game.ply_count
           /\ game'.result = game.result
           /\ game'.termination_reason = game.termination_reason
           /\ moves' = moves ) ]_vars


\* ---------------------------------------------------------------------------
\* A Running game one move before its end, under a polling client
\* ---------------------------------------------------------------------------

\* A Running game after 1. e2e4: Black, an engine, is to move, and each of its
\* moves leaves White, of any mover kind, without a legal move (mated by
\* g1f3, stalemated by e2e4).
InitMate ==
  /\ \E sp \in SpeedChoices :
       game = [status |-> RUNNING, fen |-> FenOpen, side_to_move |-> "b",
               ply_count |-> 1, move_interval_ms |-> sp[1], preview_ms |-> sp[2],
               next_action_at |-> 0, last_move_uci |-> UciB,
               pending_move_uci |-> "", pending_move_set_at |-> NoTime,
               ui_selected_from |-> "", ui_selected_to |-> "",
               tick_lock |-> FALSE, tick_lock_at |-> NoTime,
               result |-> "", termination_reason |-> "",
               initial_position_key |-> PositionKey(STARTPOS_FEN)]
  /\ moves = << MoveRow(1, UciB, FenOpen, PositionKey(FenOpen), FALSE) >>
  /\ matchRecords = << >>
  /\ engines \in [{WHITE, BLACK} -> EngineTypes]
  /\ engines[BLACK] # PLAYER
  /\ clock = 0
  /\ dbWriter = NoProc
  /\ txn = Idle
  /\ waiting = FALSE
  /\ last = NoCall
  /\ starts = 1
  /\ UciInit
  /\ call = NoFunction
  /\ RowsInit

NextMate ==
  \/ TickAcquire(FALSE)
  \/ TickBody
  \/ AdvanceLive
  \/ \E sq \in Squares : ClickSquare(sq)

\* The client keeps calling tick, time keeps passing, the engine answers
\* again and again; the human may click at any time.
SpecMate ==
  /\ InitMate /\ [][NextMate]_vars
  /\ WF_vars(TickAcquire(FALSE)) /\ SF_vars(AdvanceLive) /\ SF_vars(TickAnswered)

\* C36 (as stated): a Running game whose side to move has no legal move is
\* eventually Finished under repeated ticks, whatever the mover of that side.
C36_Original ==
  (game.status = RUNNING /\ LegalMoves(game.fen) = {}) ~> (game.status = FINISHED)


\* C37: a call of tick that returns has advanced = true exactly when it has
\* added a Move row and stored the position after that move: true after every
\* commit, plain or ending in a draw, and false, with the Move rows as they
\* were, for every other return.
C37_AdvancedIffCommitted ==
  [][ (dbWriter = TickProc /\ dbWriter' = NoProc /\ last'.exc = "none")
      => LET committed ==
               /\ Len(moves') = Len(moves) + 1
               /\ SubSeq(moves', 1, Len(moves)) = moves
               /\ game'.fen = moves'[Len(moves')].fen_after
               /\ game'.fen # game.fen
               /\ game'.last_move_uci = moves'[Len(moves')].uci
         IN  /\ last'.advanced <=> committed
             /\ last'.advanced
                  <=> last'.message \in {MsgAdvanced, MsgMaxPlies, MsgRepetition,
                                         MsgFifty, MsgInsufficient}
             /\ ~ last'.advanced => moves' = moves ]_vars

\* A call of tick has committed a move that ended the game in a draw.
C37_Witness ==
  /\ last.op = "tick" /\ last.advanced /\ last.message = MsgMaxPlies
  /\ game.status = FINISHED /\ moves # << >>


\* ------------------------------------------------ engine.py, lines 326-382

\* Lines 339-345: the width of the noise, 200 * 0.35 up to skill level 6,
\* 200 * 0.15 up to level 10, none above and none for a target rating.
NoiseWidth(mode, v) ==
  IF mode = SKILL /\ v <= 6 THEN 70
  ELSE IF mode = SKILL /\ v <= 10 THEN 30
  ELSE 0

\* A faulty start of the search that has no move to fall back on.
FirstCandidate_none(ordered) == << "(none)" >>

\* Line 348: best_move = ordered[0].
FirstCandidate(ordered) == ordered[1]

\* _pychess_choose_move on a position with the legal moves `legal`: "(none)"
\* without one, else the move of the iterative deepening to the depth of the
\* configuration.
pychess_search(ev, legal, mode, v, movetime_ms, k, nz) ==
  IF legal = << >> THEN "(none)"
  ELSE search_depths(ev, legal, 1, depth_from_strength(mode, v, movetime_ms),
                     FirstCandidate(legal), k, nz)[1]

\* Strength settings and budgets whose depth the search tree covers.
SearchConfigs ==
  { << SKILL, 1, 150 >>, << SKILL, 5, 150 >>, << SKILL, 2, 500 >>,
    << ELO, 800, 150 >> }

\* A position with or without legal moves, a configuration, the place of the
\* deadline and the signs of the noise are drawn; the search is called.
InitChoose ==
  /\ AtRest
  /\ \E legal \in { << >>, SearchChildren(<< >>) }, ev \in SearchBoards,
        cfg \in SearchConfigs, k \in 0 .. SearchChecks,
        signs \in [NoiseDraws -> {-1, 1}] :
       /\ depth_from_strength(cfg[1], cfg[2], cfg[3]) <= 2
       /\ call = [fn |-> "_pychess_choose_move", legal |-> legal, board |-> ev,
                  mode |-> cfg[1], value |-> cfg[2], movetime_ms |-> cfg[3],
                  deadline |-> k, signs |-> signs, ret |-> ""]

PychessSearch ==
  /\ call.ret = ""
  /\ call' = [call EXCEPT !.ret =
       pychess_search(call.board, call.legal, call.mode, call.value,
                      call.movetime_ms, call.deadline,
                      [d \in NoiseDraws |->
                         call.signs[d] * NoiseWidth(call.mode, call.value)])]
  /\ UNCHANGED << game, moves, matchRecords, engines, clock, dbWriter, txn, waiting,
                  last, starts, uciVars, rowVars >>

NextChoose == PychessSearch

SpecChoose == InitChoose /\ [][NextChoose]_vars

\* C38: the embedded search returns "(none)" exactly when the position has no
\* legal move, and else one of its legal moves, whatever the strength, the
\* budget and the noise, also when the deadline has passed before the first
\* candidate is searched.
C38_NoneIffNoLegalMove ==
  call.ret # "" =>
    /\ (call.ret = "(none)") <=> (call.legal = << >>)
    /\ call.legal # << >>
         => \E i \in 1 .. Len(call.legal) : call.ret = call.legal[i][1]

\* The search has returned the first candidate of a position with legal
\* moves, the deadline having passed before any candidate was searched.
C38_Witness ==
  /\ call.fn = "_pychess_choose_move" /\ call.legal # << >>
  /\ call.deadline = 0 /\ call.ret = UciA



\* ------------------------------------------------ uci.py, lines 90-133, 158-189

\* The thread c is alone: no other thread has made or is making a call.
OnlyCaller(c) ==
  \A o \in Callers \ {c} : callers[o].op = "idle" /\ callers[o].done = 0

\* The thread c takes the line at the head of _lines as the answer of
\* go_movetime (the bestmove line) or as a part of the answer of display (the
\* Fen line, or the readyok that ends the dump).
TakesAnswer(c) ==
  /\ callers[c].op \in {"inspect", "best"}
  /\ lines # << >> /\ lines' = Tail(lines)
  /\ callers'[c] # callers[c]
  /\ Steps(callers[c].op, FenOf(c))[callers[c].pc].i \in {"prefix", "dump"}

\* The commands of the present call of c whose answer the wait at its present
\* step is for: "go" before the wait for bestmove, "d" and "isready" before
\* the loop of display.
Requested(c) ==
  { << c, callers[c].done, callers[c].op, p >> :
      p \in { q \in {callers[c].pc - 2, callers[c].pc - 1} :
                q >= 1 /\ Steps(callers[c].op, FenOf(c))[q].i = "send" } }

\* C39 (as stated): the bestmove line a move search returns and the lines a
\* diagnostic request returns on were written by the engine for the command
\* that requested them, never left in the queue by an earlier command that
\* timed out; stated for a thread that uses the engine alone.
C39_Original ==
  [][ \A c \in Callers :
        (OnlyCaller(c) /\ TakesAnswer(c)) => Head(lines).by \in Requested(c) ]_vars



\* ------------------------------------------------ engine.py, lines 34-40

\* EnginePool.get finds _engine set and returns it to the thread c as it is:
\* the call of c goes on with that client, or ends in its first command.
GetReturnsExisting(c) ==
  /\ callers[c].op = "idle" /\ callers'[c] # callers[c]
  /\ pool.engine # "none"

\* C40 (as stated): EnginePool.get returns only a client whose process was
\* started and whose handshake and set_option went through; after a start or
\* a handshake that failed, a later call is not handed that client.
C40_Original ==
  [][ \A c \in Callers : GetReturnsExisting(c) => pool.ready ]_vars

=============================================================================
